---- MODULE Spec2Model ----
(***************************************************************************)
(* A model of the tam container library (archermarx/tam): the string-keyed *)
(* open-addressing hash map of map.h, the bump arena of memory.h, the       *)
(* growable vector of vector.h and the length-prefixed string of string.h. *)
(* Every operator is a transcription of the C function it is named after.  *)
(***************************************************************************)
EXTENDS Integers, Sequences, FiniteSets, TLC

(***************************************************************************)
(* Bounds of the exploration                                               *)
(***************************************************************************)
\* no table growth is explored once this many growths happened in a lifetime
MaxGrowths == 2

\* the largest arena capacity, in bytes, handed to tam_arena_new
MaxArenaCap == 10

\* the largest element count of one request to the arena
MaxCount == 3

\* no further region is requested once the arena has issued this many
MaxRegions == 2

\* the largest number of pushes onto one vector
MaxPushes == 9

\* the largest length handed to <name>_newlen and <name>_fill
MaxNewLen == 5

\* the largest number of bytes in a source buffer before its terminator
MaxStrLen == 3
\* calls of the strip functions on one slice
MaxStrips == 2
\* calls of tam_slice_tok on one slice
MaxToks == 4
\* the largest sizeof(type) of a vector's element type
MaxElemSize == 32
\* calls on one string builder
MaxSbCalls == 4

(***************************************************************************)
(* Inputs: keys are tam_str handles, values are opaque tam_any pointers    *)
(***************************************************************************)
\* a tam_str: the allocation it points to and the bytes stored there (no
\* embedded NUL); two handles with the same bytes are two tam_strnew results
Str(h, s) == [h |-> h, s |-> s]

\* the key strings of the general scenario: "a" (allocated twice), "ah",
\* "b", "c", "d", "e", "g".  FNV-1a sends "a" and "ah" to the same slot of
\* an 8, 16 or 32 slot table, and "g" to slot 6
Keys == { Str(1, <<97>>), Str(2, <<97>>), Str(1, <<97, 104>>), Str(1, <<98>>),
          Str(1, <<99>>), Str(1, <<100>>), Str(1, <<101>>), Str(1, <<103>>) }

\* the key strings of the nine-insertions scenario: "a" .. "i" and "ah"
NineKeys == { Str(1, <<97>>), Str(1, <<98>>), Str(1, <<99>>), Str(1, <<100>>),
              Str(1, <<101>>), Str(1, <<102>>), Str(1, <<103>>),
              Str(1, <<104>>), Str(1, <<105>>), Str(1, <<97, 104>>) }

KeyBytes == { k.s : k \in Keys \cup NineKeys }

\* the non-null tam_any payloads
Values == {1, 2}

\* the NULL value pointer
NULL == 0

\* the NULL key pointer that marks an empty slot
NullKey == [h |-> 0, s |-> <<>>]

\* the content of the caller's out-variable before tam_map_get is entered
Unwritten == 0

EmptyPair == [key |-> NullKey, value |-> NULL]

(***************************************************************************)
(* State                                                                   *)
(***************************************************************************)
VARIABLES
    count,      \* tam_map.count
    capacity,   \* tam_map.capacity
    entries,    \* tam_map.entries: slot i of the C array is entries[i + 1]
    ret,        \* return value of the last tam_map_set / tam_map_get
    out,        \* the cell passed as val when the last call was tam_map_get
    opk,        \* the last call: "init", "set", "get" or "free"
    lastSet,    \* history: bytes -> value of the latest tam_map_set, or NULL
    ngrow,      \* history: number of adjust_capacity calls since tam_init_map
    fresh,      \* history: every tam_map_set since tam_init_map used new bytes
    a_beg,      \* tam_arena_t.beg, an address; NullPtr before the first use
    a_ptr,      \* tam_arena_t.ptr, the address of the next free byte
    a_cap,      \* tam_arena_t.cap
    a_ret,      \* the pointer returned by the last arena call
    a_newcount, \* the cell passed as new_count to the last TAM_arena_grow_arr
    a_op,       \* the last arena call, "fatal" once tam_errorf ended the run
    a_issued,   \* history: the regions the arena issued, in order of issue
    a_mem,      \* the bytes of the arena's block: a_mem[k + 1] is beg[k]
    v_src,      \* the constructor the caller's vector handle came from
    v_hdr,      \* the header (len, cap) of the block the handle points into
    v_data,     \* the elements of that block: v_data[i + 1] is vec[i]
    v_live,     \* FALSE once realloc has freed that block
    v_store,    \* the block realloc moved the vector to, when it did
    v_op,       \* the last vector operation
    v_pushed,   \* history: the elements pushed through the handle, in order
    v_write,    \* history: index and capacity of the last push's write
    v_grow,     \* history: what tam_vec_grow did in the last push
    s_buf,      \* the caller's char buffer, ending in a NUL byte
    s_str,      \* the tam_str built last: header length and data bytes
    s_src,      \* history: the source bytes the last string was built from
    s_op,       \* the last string operation
    s_args,     \* history: the bytes of the two operands of the last
                \* concatenation or comparison, as they are after the call
    s_ret,      \* the int tam_strcmp returned last
    l_buf,      \* the char array the caller's slice views (buffer 1)
    l_other,    \* the char array of a second slice handed in (buffer 2)
    l_s,        \* the caller's slice: buffer, offset of buf in it, len
    l_ret,      \* what the last slice operation returned
    l_args,     \* history: the arguments of the last slice operation
    l_before,   \* history: the caller's slice before the last operation
    l_op,       \* the last slice operation
    l_hist,     \* history: op, returned value and slice left of every call
                \* that changed the caller's slice, oldest first
    l_orig,     \* history: the caller's slice as it was made
    k_block,    \* the block tamint__vec_alloc asked calloc for last: the
                \* constructor, sizeof(size_t), cap, size and the bytes asked
    b_buf,      \* sb.buf: "null", "live" (points to the block b_data) or
                \* "freed" (points to a block that was handed to free)
    b_data,     \* the bytes of the block sb.buf points to
    b_len,      \* sb.len
    b_cap,      \* sb.cap
    b_ret,      \* the char array tam_sb_tochars returned last
    b_op,       \* the last builder operation
    b_app,      \* history: the pieces appended since the builder was new or
                \* deallocated, concatenated
    b_stale,    \* history: a freed block was handed to realloc or free
    b_calls     \* history: the number of builder calls so far

mapvars == <<count, capacity, entries, ret, out, opk, lastSet, ngrow, fresh>>
arenavars == <<a_beg, a_ptr, a_cap, a_ret, a_newcount, a_op, a_issued, a_mem>>
vecvars == <<v_src, v_hdr, v_data, v_live, v_store, v_op, v_pushed, v_write, v_grow>>
strvars == <<s_buf, s_str, s_src, s_op, s_args, s_ret>>
slicevars == <<l_buf, l_other, l_s, l_ret, l_args, l_before, l_op, l_hist, l_orig>>
blockvars == <<k_block>>
sbvars == <<b_buf, b_data, b_len, b_cap, b_ret, b_op, b_app, b_stale, b_calls>>
vars == <<mapvars, arenavars, vecvars, strvars, slicevars, blockvars, sbvars>>

\* what the operations of one component leave alone
notmap == <<arenavars, vecvars, strvars, slicevars, blockvars, sbvars>>
notarena == <<mapvars, vecvars, strvars, slicevars, blockvars, sbvars>>
notvec == <<mapvars, arenavars, strvars, slicevars, blockvars, sbvars>>
notstr == <<mapvars, arenavars, vecvars, slicevars, blockvars, sbvars>>
notslice == <<mapvars, arenavars, vecvars, strvars, blockvars, sbvars>>
notsb == <<mapvars, arenavars, vecvars, strvars, slicevars, blockvars>>
notblock == <<mapvars, arenavars, vecvars, strvars, slicevars, sbvars>>

(***************************************************************************)
(* uint32_t arithmetic on two 16-bit limbs <<hi, lo>>                      *)
(***************************************************************************)
Limb == 65536

RECURSIVE XorBits(_, _, _)
XorBits(a, b, n) ==
    IF n = 0 THEN 0
    ELSE (((a % 2) + (b % 2)) % 2) + 2 * XorBits(a \div 2, b \div 2, n - 1)

\* hash ^= (uint8_t)c
HashXor(hash, c) ==
    <<hash[1], (hash[2] \div 256) * 256 + XorBits(hash[2] % 256, c, 8)>>

\* hash *= 16777619  (16777619 = 2^24 + 403), modulo 2^32
HashMul(hash) ==
    LET lo403 == hash[2] * 403
    IN  << (hash[1] * 403 + (lo403 \div Limb) + (hash[2] % 256) * 256) % Limb,
           lo403 % Limb >>

\* 2166136261u = 0x811C9DC5
HashSeed == <<33052, 40389>>

RECURSIVE HashFrom(_, _, _)
HashFrom(hash, s, i) ==
    IF i > Len(s) THEN hash
    ELSE HashFrom(HashMul(HashXor(hash, s[i])), s, i + 1)

\* the hash of every key string of the scenarios, computed once
HashOf == [b \in KeyBytes |-> HashFrom(HashSeed, b, 1)]

hash_string(key) == HashOf[key.s]

\* hash_string(key) % capacity
HashMod(key, cap) ==
    LET hash == hash_string(key)
    IN  ((hash[1] % cap) * (Limb % cap) + hash[2]) % cap

(***************************************************************************)
(* find_entry                                                              *)
(***************************************************************************)
\* byte i (1-based) of the buffer behind a tam_str: its bytes, then the NUL
ByteAt(key, i) == IF i <= Len(key.s) THEN key.s[i] ELSE 0

\* a comparison with the sense of the memcmp test inverted
MemcmpEq_Inverted(key, entry_key) ==
    \E i \in 1..Len(key.s) : ByteAt(key, i) # ByteAt(entry_key, i)

\* memcmp(key, entry_key, tam_strlen(key)) == 0; the comparison ends at the
\* first difference, which is no later than entry_key's terminator
MemcmpEq(key, entry_key) ==
    \A i \in 1..Len(key.s) : ByteAt(key, i) = ByteAt(entry_key, i)

Hang == -1

\* the probe loop: index is the C index, steps counts the slots visited; a
\* table without an empty or matching slot keeps the loop running for ever
RECURSIVE Probe(_, _, _, _, _, _)
Probe(ents, cap, key, hash, index, steps) ==
    IF steps >= cap THEN Hang
    ELSE LET entry == ents[index + 1]
         IN  IF entry.key = NullKey THEN index
             ELSE IF hash = HashMod(entry.key, cap) /\ MemcmpEq(key, entry.key)
                  THEN index
                  ELSE Probe(ents, cap, key, hash, (index + 1) % cap, steps + 1)

find_entry(ents, cap, key) ==
    LET hash == HashMod(key, cap)
    IN  Probe(ents, cap, key, hash, hash, 0)

(***************************************************************************)
(* adjust_capacity                                                         *)
(***************************************************************************)
\* the second loop of adjust_capacity: slots i .. n-1 of the old table
RECURSIVE Reinsert(_, _, _, _, _)
Reinsert(old, new, cap, i, n) ==
    IF i >= n THEN new
    ELSE LET entry == old[i + 1]
         IN  IF entry.key = NullKey THEN Reinsert(old, new, cap, i + 1, n)
             ELSE LET dest == find_entry(new, cap, entry.key)
                  IN  Reinsert(old,
                               [new EXCEPT ![dest + 1] =
                                    [key |-> entry.key, value |-> entry.value]],
                               cap, i + 1, n)

\* the loop runs over the first map->count slots of the old table
ReinsertBound(cnt, oldcap) == cnt

adjust_capacity(ents, cnt, cap) ==
    Reinsert(ents, [i \in 1..cap |-> EmptyPair], cap, 0,
             ReinsertBound(cnt, Len(ents)))

\* a growth step of one and a half instead of two
GROW_CAPACITY_Half(x) == IF x = 0 THEN 8 ELSE x + (x \div 2)

GROW_CAPACITY(x) == IF x = 0 THEN 8 ELSE x * 2

\* a growth test that lets the table fill up before it grows
MustGrow_Late(cnt, cap) == cap = 0 \/ cnt >= cap

\* a growth test that compares against the capacity, not the load limit
MustGrow_Full(cnt, cap) == cnt + 1 > cap

\* map->count + 1 > map->capacity * MAP_MAX_LOAD, with MAP_MAX_LOAD = 0.75
MustGrow(cnt, cap) == 4 * (cnt + 1) > 3 * cap

(***************************************************************************)
(* The arena of memory.h                                                   *)
(***************************************************************************)
NullPtr == 0

\* the addresses calloc may hand out for the backing block
BaseAddrs == {16, 24}

\* the capacities handed to tam_arena_new
ArenaCaps == {0, MaxArenaCap \div 2, MaxArenaCap}

\* sizeof and _Alignof of the element types requested
ElemSizes == {1, 2, 4}
Aligns == {1, 2, 4, 8}

RECURSIVE BitAnd(_, _)
BitAnd(x, y) ==
    IF x = 0 \/ y = 0 THEN 0
    ELSE (x % 2) * (y % 2) + 2 * BitAnd(x \div 2, y \div 2)

\* a mask applied to the address itself instead of its negation
Padding_NoNegate(ptr, align) == BitAnd(ptr % 256, align - 1)

\* -(uintptr_t)ptr & (align - 1): only the low byte of -ptr meets the mask
Padding(ptr, align) == BitAnd((256 - (ptr % 256)) % 256, align - 1)

\* isize is a signed integer type; the model gives it 16 bits
IsizeMax == 32767

\* the value a product takes in an isize
WrapIsize(x) == ((x + IsizeMax + 1) % (2 * (IsizeMax + 1))) - (IsizeMax + 1)

\* a->ptr += padding, leaving the allocation out
ArenaAdvance_NoAlloc(ptr, padding, alloc) == ptr + padding

\* a->ptr += padding + alloc
ArenaAdvance(ptr, padding, alloc) == ptr + padding + alloc

\* a check that compares the count with the bytes available
OutOfMemory_NoDivide(available, size, cnt) ==
    available < 0 \/ cnt > available

\* a check that compares the product alloc, as wide as an isize
OutOfMemory_Product(available, size, cnt) ==
    available < 0 \/ WrapIsize(cnt * size) > available

\* available < 0 || count > available / size
OutOfMemory(available, size, cnt) ==
    available < 0 \/ cnt > available \div size

\* TAM_arena_allocate on an arena whose block is at beg: the pointer it
\* returns and the cursor it leaves, or the fatal error
ArenaAllocate(beg, ptr, cap, size, align, cnt) ==
    LET end       == beg + cap
        alloc     == WrapIsize(cnt * size)
        padding   == Padding(ptr, align)
        available == end - ptr - padding
    IN  IF OutOfMemory(available, size, cnt)
        THEN [ok |-> FALSE, p |-> NullPtr, ptr |-> ptr]
        ELSE [ok |-> TRUE, p |-> ptr + padding,
              ptr |-> ArenaAdvance(ptr, padding, alloc)]

Region(p, size, cnt) == [lo |-> p, hi |-> p + cnt * size, size |-> size, cnt |-> cnt]

ArenaInit ==
    /\ a_beg = NullPtr
    /\ a_ptr = NullPtr
    /\ a_cap = MaxArenaCap
    /\ a_ret = NullPtr
    /\ a_newcount = 0
    /\ a_op = "new"
    /\ a_issued = <<>>
    /\ a_mem = <<>>

\* a = tam_arena_new(cap)
tam_arena_new(cap) ==
    /\ a_op \notin {"fatal", "crash"}
    /\ a_beg' = NullPtr
    /\ a_ptr' = NullPtr
    /\ a_cap' = cap
    /\ a_ret' = NullPtr
    /\ a_newcount' = 0
    /\ a_op' = "new"
    /\ a_issued' = <<>>
    /\ a_mem' = <<>>
    /\ UNCHANGED notarena

\* tam_errorf: the message is printed and the process exits
Fatal ==
    /\ a_op' = "fatal"
    /\ UNCHANGED <<a_beg, a_ptr, a_cap, a_ret, a_issued>>

\* the body of TAM_arena_allocate as one step; base is the address calloc
\* returns when the block is allocated by this call (NullPtr: calloc failed
\* and TAM_allocate reports the fatal error)
AllocateStep(base, size, align, cnt, op) ==
    LET fails == a_beg = NullPtr /\ base = NullPtr
        beg   == IF a_beg = NullPtr THEN base ELSE a_beg
        ptr   == IF a_beg = NullPtr THEN base ELSE a_ptr
        res   == ArenaAllocate(beg, ptr, a_cap, size, align, cnt)
    IN  IF fails \/ ~res.ok
        THEN Fatal
        ELSE /\ a_beg' = beg
             /\ a_ptr' = res.ptr
             /\ a_ret' = res.p
             /\ a_op' = op
             /\ a_issued' = Append(a_issued, Region(res.p, size, cnt))
             /\ UNCHANGED a_cap

\* the block the call works on: the arena's own, or when it has none yet
\* (a->beg == NULL) what calloc returns now: an address, or NULL
CallocResults(beg) == IF beg = NullPtr THEN BaseAddrs \cup {NullPtr} ELSE {beg}

\* the bytes of the block once the call has it: calloc hands out zeroes
BlockBytes == IF a_beg = NullPtr THEN [k \in 1..a_cap |-> 0] ELSE a_mem

\* the block's bytes after a call of TAM_arena_allocate that returned
MemAfterAllocate == IF a_op' = "fatal" THEN a_mem ELSE BlockBytes

TAM_arena_allocate(size, align, cnt) ==
    /\ a_op \notin {"fatal", "crash"}
    /\ Len(a_issued) < MaxRegions
    /\ \E base \in CallocResults(a_beg) : AllocateStep(base, size, align, cnt, "alloc")
    /\ a_mem' = MemAfterAllocate
    /\ UNCHANGED a_newcount
    /\ UNCHANGED notarena

\* the number of bytes memcpy moves: count elements but not their size
CopyBytes_NoSize(cnt, size) == cnt

\* count * size, the number of bytes memcpy moves
CopyBytes(cnt, size) == cnt * size

\* memcpy(dst, src, n) inside the block at beg, on its bytes mem
Memcpy(mem, beg, dst, src, n) ==
    [k \in 1..Len(mem) |->
        IF k - 1 >= dst - beg /\ k - 1 < dst - beg + n
        THEN mem[(src - beg) + (k - (dst - beg))]
        ELSE mem[k]]

\* TAM_arena_reallocate(a, ptr, size, align, count, new_count); copying
\* count * size > 0 bytes through a null ptr ends the process (SIGSEGV)
ReallocateStep(ptr, size, align, cnt, new_count, op) ==
    IF new_count <= cnt
    THEN /\ a_ret' = ptr
         /\ a_op' = op
         /\ UNCHANGED <<a_beg, a_ptr, a_cap, a_issued, a_mem>>
    ELSE \E base \in CallocResults(a_beg) :
           LET fails == a_beg = NullPtr /\ base = NullPtr
               beg   == IF a_beg = NullPtr THEN base ELSE a_beg
               ptr0  == IF a_beg = NullPtr THEN base ELSE a_ptr
               res   == ArenaAllocate(beg, ptr0, a_cap, size, align, new_count)
           IN  IF ~fails /\ res.ok /\ ptr = NullPtr /\ CopyBytes(cnt, size) > 0
               THEN /\ a_op' = "crash"
                    /\ UNCHANGED <<a_beg, a_ptr, a_cap, a_ret, a_issued, a_mem>>
               ELSE /\ AllocateStep(base, size, align, new_count, op)
                    /\ a_mem' = IF a_op' = "fatal" THEN a_mem
                                 ELSE Memcpy(BlockBytes, a_beg', a_ret', ptr,
                                             CopyBytes(cnt, size))

\* the arrays a caller may pass back: a region it was issued, with that
\* region's element size and count, or no array at all
Arrays == { a_issued[i] : i \in 1..Len(a_issued) } \cup {Region(NullPtr, 1, 0)}

TAM_arena_reallocate(arr, align, new_count) ==
    /\ a_op \notin {"fatal", "crash"}
    /\ Len(a_issued) < MaxRegions
    /\ ReallocateStep(arr.lo, arr.size, align, arr.cnt, new_count, "realloc")
    /\ UNCHANGED a_newcount
    /\ UNCHANGED notarena

DEFAULT_ARRAY_SIZE == 8

\* the new_cap of TAM_arena_grow_arr
GrowCount(arr, cnt) ==
    IF arr = NullPtr \/ cnt = 0 THEN DEFAULT_ARRAY_SIZE ELSE cnt * 2

\* the arrays handed to TAM_arena_grow_arr: those, or a null array with
\* any count up to the default size
GrowArrays == Arrays \cup { Region(NullPtr, 1, c) : c \in 0..DEFAULT_ARRAY_SIZE }

TAM_arena_grow_arr(arr, align) ==
    /\ a_op \notin {"fatal", "crash"}
    /\ Len(a_issued) < MaxRegions
    /\ a_newcount' = GrowCount(arr.lo, arr.cnt)
    /\ ReallocateStep(arr.lo, arr.size, align, arr.cnt,
                      GrowCount(arr.lo, arr.cnt), "grow")
    /\ UNCHANGED notarena

\* tam_arena_dealloc: the block is freed and the arena zeroed
tam_arena_dealloc ==
    /\ a_op \notin {"fatal", "crash", "dealloc"}
    /\ a_beg' = NullPtr
    /\ a_ptr' = NullPtr
    /\ a_cap' = 0
    /\ a_op' = "dealloc"
    /\ a_issued' = <<>>
    /\ a_mem' = <<>>
    /\ UNCHANGED <<a_ret, a_newcount>>
    /\ UNCHANGED notarena

\* the byte the caller stores at offset j of the i-th region it was issued
ElemByte(i, j) == 16 * i + j + 1

\* the caller fills the i-th region it was issued with its elements
CallerStore(i) ==
    /\ a_op \notin {"fatal", "crash"}
    /\ a_issued[i].lo < a_issued[i].hi
    /\ a_mem' = [k \in 1..Len(a_mem) |->
                    IF a_issued[i].lo <= a_beg + k - 1 /\ a_beg + k - 1 < a_issued[i].hi
                    THEN ElemByte(i, a_beg + k - 1 - a_issued[i].lo)
                    ELSE a_mem[k]]
    /\ a_mem' # a_mem
    /\ a_op' = "store"
    /\ UNCHANGED <<a_beg, a_ptr, a_cap, a_ret, a_newcount, a_issued>>
    /\ UNCHANGED notarena

ArenaNew == \E cap \in ArenaCaps : tam_arena_new(cap)
\* the element counts of a request: small ones, and one whose product
\* with an element size of 2 or 4 does not fit an isize
Counts == 0..MaxCount \cup {(IsizeMax + 1) \div 2}

ArenaAlloc ==
    \E size \in ElemSizes, align \in Aligns, cnt \in Counts :
        TAM_arena_allocate(size, align, cnt)
ArenaRealloc ==
    \E arr \in Arrays, align \in Aligns, new_count \in 0..MaxCount :
        TAM_arena_reallocate(arr, align, new_count)
ArenaGrow == \E arr \in GrowArrays, align \in Aligns : TAM_arena_grow_arr(arr, align)
ArenaDealloc == tam_arena_dealloc

\* the arena used for arrays of 1- and 2-byte elements that the caller fills
ArraySizes == {1, 2}
ArrayAligns == {1, 2}
MemAlloc ==
    \E size \in ArraySizes, align \in ArrayAligns, cnt \in 0..MaxCount :
        TAM_arena_allocate(size, align, cnt)
MemStore == \E i \in 1..Len(a_issued) : CallerStore(i)
MemRealloc ==
    \E arr \in Arrays, align \in ArrayAligns, new_count \in 0..(MaxCount + 1) :
        TAM_arena_reallocate(arr, align, new_count)
MemGrow == \E arr \in GrowArrays, align \in ArrayAligns : TAM_arena_grow_arr(arr, align)

NextArena == ArenaNew \/ ArenaAlloc \/ ArenaRealloc \/ ArenaGrow \/ ArenaDealloc

(***************************************************************************)
(* The vector of vector.h, for an element type of 4 bytes                  *)
(***************************************************************************)
TAMINT__VECTOR_BASE_ALLOC == 8

\* the elements pushed and filled in
Elems == {1, 2}

\* a header and a block that hold nothing
NoHeader == [len |-> 0, cap |-> 0]
NoStore == [len |-> 0, cap |-> 0, data |-> <<>>]
NoWrite == [idx |-> -1, cap |-> 0]
NoGrow == [old |-> -1, new |-> -1, len |-> -1]

\* a growth that doubles the capacity
GrowCap_Double(cap) == cap * 2

\* (size_t)(header->cap * TAMINT__VECTOR_GROW_FACTOR), the factor being 1.618
GrowCap(cap) == (cap * 1618) \div 1000

\* tamint__vec_alloc(len, cap, size): calloc hands out zeroed elements
tamint__vec_alloc(len, cap) ==
    [len |-> len, cap |-> cap, data |-> [i \in 1..cap |-> 0]]

\* the block tam_vec_grow leaves: realloc keeps the elements below the old
\* capacity, the loop zeroes those from header->len on, and the capacity in
\* the header is the new one
tam_vec_grow(hdr, data) ==
    [len |-> hdr.len, cap |-> GrowCap(hdr.cap),
     data |-> [i \in 1..GrowCap(hdr.cap) |->
                 IF i <= hdr.len /\ i <= hdr.cap THEN data[i] ELSE 0]]

\* vec[idx] = elem on a block of cap elements: a write at idx >= cap lands
\* outside the block and leaves its elements as they are
StoreElem(data, idx, elem) ==
    IF idx < Len(data) THEN [data EXCEPT ![idx + 1] = elem] ELSE data

VecInit ==
    /\ v_src = "none"
    /\ v_hdr = NoHeader
    /\ v_data = <<>>
    /\ v_live = FALSE
    /\ v_store = NoStore
    /\ v_op = "none"
    /\ v_pushed = <<>>
    /\ v_write = NoWrite
    /\ v_grow = NoGrow

\* the caller takes the vector a constructor returns as its handle
Construct(src, block) ==
    /\ v_src = "none"
    /\ v_src' = src
    /\ v_hdr' = [len |-> block.len, cap |-> block.cap]
    /\ v_data' = block.data
    /\ v_live' = TRUE
    /\ v_op' = src
    /\ UNCHANGED <<v_store, v_pushed, v_write, v_grow>>
    /\ UNCHANGED notvec

\* vec = <name>_new()
vec_new == Construct("new", tamint__vec_alloc(0, TAMINT__VECTOR_BASE_ALLOC))

\* vec = <name>_newlen(len)
vec_newlen(len) == Construct("newlen", tamint__vec_alloc(len, len))

\* vec = <name>_fill(len, elem)
vec_fill(len, elem) ==
    Construct("fill", [tamint__vec_alloc(len, len) EXCEPT
                          !.data = [i \in 1..len |-> elem]])

\* what realloc may do with the block: extend it where it is, move it to
\* another address and free the old one, or fail and return NULL
ReallocOutcomes == {"inplace", "moved", "null"}

\* the process is killed by a signal inside <name>_push
VecCrash ==
    /\ v_op' = "crash"
    /\ UNCHANGED <<v_src, v_hdr, v_data, v_live, v_store, v_pushed, v_write, v_grow>>

\* the handle's block is allocated and no write has left its block: what
\* the vector does after that is not explored
VecSound == v_live /\ (v_write = NoWrite \/ v_write.idx < v_write.cap)

\* <name>_push(vec, elem) through the caller's handle. The handle is passed
\* by value and header is read before tam_vec_grow: when realloc moves the
\* block, vec[header->len] and header->len += 1 go through the freed header,
\* which either still reads as it was left or kills the process. A write at
\* an index outside the block either goes unnoticed or kills the process.
vec_push(elem) ==
    /\ v_src # "none"
    /\ v_op # "crash"
    /\ VecSound
    /\ Len(v_pushed) < MaxPushes
    /\ IF v_hdr.len < v_hdr.cap
       THEN /\ v_data' = StoreElem(v_data, v_hdr.len, elem)
            /\ v_hdr' = [v_hdr EXCEPT !.len = v_hdr.len + 1]
            /\ v_op' = "push"
            /\ v_pushed' = Append(v_pushed, elem)
            /\ v_write' = [idx |-> v_hdr.len, cap |-> v_hdr.cap]
            /\ v_grow' = NoGrow
            /\ UNCHANGED <<v_src, v_live, v_store>>
       ELSE LET grown == tam_vec_grow(v_hdr, v_data)
            IN  \E outcome \in ReallocOutcomes :
                  \/ /\ outcome = "inplace"
                     /\ v_data' = StoreElem(grown.data, v_hdr.len, elem)
                     /\ v_hdr' = [len |-> v_hdr.len + 1, cap |-> grown.cap]
                     /\ v_op' = "push"
                     /\ v_pushed' = Append(v_pushed, elem)
                     /\ v_write' = [idx |-> v_hdr.len, cap |-> grown.cap]
                     /\ v_grow' = [old |-> v_hdr.cap, new |-> grown.cap, len |-> v_hdr.len]
                     /\ UNCHANGED <<v_src, v_live, v_store>>
                  \/ /\ outcome = "moved"
                     /\ v_live' = FALSE
                     /\ v_store' = [grown EXCEPT
                                       !.data = StoreElem(grown.data, v_hdr.len, elem)]
                     /\ v_hdr' = [v_hdr EXCEPT !.len = v_hdr.len + 1]
                     /\ v_op' = "push"
                     /\ v_pushed' = Append(v_pushed, elem)
                     /\ v_write' = [idx |-> v_hdr.len, cap |-> grown.cap]
                     /\ v_grow' = [old |-> v_hdr.cap, new |-> grown.cap, len |-> v_hdr.len]
                     /\ UNCHANGED <<v_src, v_data>>
                  \/ /\ outcome \in {"moved", "null"}
                     /\ VecCrash
                  \/ /\ outcome = "inplace"
                     /\ v_hdr.len >= grown.cap
                     /\ VecCrash
    /\ UNCHANGED notvec

VecNew == vec_new
VecNewlen == \E len \in 0..MaxNewLen : vec_newlen(len)
VecFill == \E len \in 0..MaxNewLen, elem \in Elems : vec_fill(len, elem)
VecPush == \E elem \in Elems : vec_push(elem)

(***************************************************************************)
(* The block of a vector for an element type of any size                   *)
(***************************************************************************)
\* sizeof(size_t) of the builds: 4 and 8 bytes
SizeTs == {4, 8}

\* sizeof(tamint__vec_header): three size_t
HeaderBytes(sizet) == 3 * sizet

\* the bytes of calloc(cap + sizeof(tamint__vec_header) / size, size)
AllocBytes(sizet, cap, size) == (cap + HeaderBytes(sizet) \div size) * size

BlockInit == k_block = [op |-> "none", sizet |-> 0, cap |-> 0, size |-> 0, bytes |-> 0]

\* the call of tamint__vec_alloc(len, cap, sizeof(type)) in a constructor
BlockAlloc(op, sizet, cap, size) ==
    /\ k_block.op = "none"
    /\ k_block' = [op |-> op, sizet |-> sizet, cap |-> cap, size |-> size,
                   bytes |-> AllocBytes(sizet, cap, size)]
    /\ UNCHANGED notblock

\* the element sizes: sizeof(type) of the type the vector is defined for
ElemBytes == 1..MaxElemSize

\* <name>_new(), <name>_newlen(len), <name>_fill(len, elem)
BlockNew ==
    \E sizet \in SizeTs, size \in ElemBytes :
        BlockAlloc("new", sizet, TAMINT__VECTOR_BASE_ALLOC, size)
BlockNewlen ==
    \E sizet \in SizeTs, size \in ElemBytes, len \in 0..MaxNewLen :
        BlockAlloc("newlen", sizet, len, size)
BlockFill ==
    \E sizet \in SizeTs, size \in ElemBytes, len \in 0..MaxNewLen :
        BlockAlloc("fill", sizet, len, size)

(***************************************************************************)
(* The string of string.h                                                  *)
(***************************************************************************)
NUL == 0

\* the bytes a source may hold: NUL, 'a', 'b'
Bytes == {NUL, 97, 98}

RECURSIVE SeqsOf(_, _)
SeqsOf(S, n) ==
    IF n = 0 THEN {<<>>}
    ELSE LET shorter == SeqsOf(S, n - 1)
         IN  shorter \cup { Append(q, x) : q \in {r \in shorter : Len(r) = n - 1}, x \in S }

\* the char buffers of a caller: up to MaxStrLen bytes and a terminator
Buffers == { Append(q, NUL) : q \in SeqsOf(Bytes, MaxStrLen) }

\* a tam__stralloc that leaves no room for the terminator
tam__stralloc_NoTerminator(len) == [len |-> len, data |-> [i \in 1..len |-> NUL]]

\* tam__stralloc(len): calloc zeroes the len + 1 data bytes after the
\* header, in which len is stored
tam__stralloc(len) == [len |-> len, data |-> [i \in 1..(len + 1) |-> NUL]]

\* a copy loop that stops one byte early
tam__strncpy_Short(dst, src, n) ==
    [i \in 1..Len(dst) |-> IF i < n THEN src[i] ELSE dst[i]]

\* tam__strncpy(dst, src, n): dst[i] = src[i] for i < n
tam__strncpy(dst, src, n) ==
    [i \in 1..Len(dst) |-> IF i <= n THEN src[i] ELSE dst[i]]

\* tam__strnewlen(s, len)
tam__strnewlen(src, len) ==
    [tam__stralloc(len) EXCEPT !.data = tam__strncpy(@, src, len)]

\* the bytes seen through the pointer buf + off
PtrAt(buf, off) == [i \in 1..(Len(buf) - off) |-> buf[off + i]]

\* tam_substr(start, end) for the pointers buf + start and buf + end
tam_substr(buf, start, end) == tam__strnewlen(PtrAt(buf, start), end - start)

\* strlen(s): the number of bytes before the first NUL
RECURSIVE strlen(_)
strlen(src) == IF src[1] = NUL THEN 0 ELSE 1 + strlen(Tail(src))

\* tam_strnew(s)
tam_strnew(src) == tam__strnewlen(src, strlen(src))

\* tam_strlen(s): the length in the header
tam_strlen(str) == str.len

\* tam_strdup(s)
tam_strdup(str) == tam__strnewlen(str.data, tam_strlen(str))

StrInit ==
    /\ s_buf = <<NUL>>
    /\ s_str = tam__stralloc(0)
    /\ s_src = <<>>
    /\ s_op = "none"
    /\ s_args = <<>>
    /\ s_ret = 0

\* the caller fills its buffer
StrInput(buf) ==
    /\ s_buf' = buf
    /\ s_buf' # s_buf
    /\ s_op' = "input"
    /\ UNCHANGED <<s_str, s_src, s_args, s_ret>>
    /\ UNCHANGED notstr

\* str = tam_substr(buf + start, buf + end)
StrSubstr(start, end) ==
    /\ s_str' = tam_substr(s_buf, start, end)
    /\ s_src' = SubSeq(s_buf, start + 1, end)
    /\ s_op' = "substr"
    /\ s_args' = <<>>
    /\ UNCHANGED <<s_buf, s_ret>>
    /\ UNCHANGED notstr

\* str = tam_strnew(buf)
StrNew ==
    /\ s_str' = tam_strnew(s_buf)
    /\ s_src' = SubSeq(s_buf, 1, CHOOSE n \in 0..(Len(s_buf) - 1) :
                                    /\ s_buf[n + 1] = NUL
                                    /\ \A j \in 1..n : s_buf[j] # NUL)
    /\ s_op' = "new"
    /\ s_args' = <<>>
    /\ UNCHANGED <<s_buf, s_ret>>
    /\ UNCHANGED notstr

\* str = tam_strdup(str) of the string built last
StrDup ==
    /\ s_op \in {"substr", "new"}
    /\ s_str' = tam_strdup(s_str)
    /\ s_src' = SubSeq(s_str.data, 1, Len(s_str.data) - 1)
    /\ s_op' = "dup"
    /\ s_args' = <<>>
    /\ UNCHANGED <<s_buf, s_ret>>
    /\ UNCHANGED notstr

\* tam__strncpy(dst + off, src, n) on the data bytes of dst
StrncpyAt(data, off, src, n) ==
    LET tail == tam__strncpy(PtrAt(data, off), src, n)
    IN  [i \in 1..Len(data) |-> IF i <= off THEN data[i] ELSE tail[i - off]]

\* a concatenation that copies right to the start of the result
Concat_Overwrite(left, left_len, right, right_len) ==
    [tam__stralloc(left_len + right_len) EXCEPT
        !.data = StrncpyAt(tam__strncpy(@, left, left_len), 0, right, right_len)]

\* the body shared by tam_strcat and tam_strcatstr: allocate the sum of the
\* lengths, copy left, copy right behind it
Concat(left, left_len, right, right_len) ==
    [tam__stralloc(left_len + right_len) EXCEPT
        !.data = StrncpyAt(tam__strncpy(@, left, left_len), left_len, right, right_len)]

\* tam_strcat(left, right) for a tam_str left and a char* right
tam_strcat(left, right) == Concat(left.data, tam_strlen(left), right, strlen(right))

\* tam_strcatstr(left, right) for two tam_str
tam_strcatstr(left, right) ==
    Concat(left.data, tam_strlen(left), right.data, tam_strlen(right))

\* the strings a caller may hold: every byte sequence of a buffer
Strings == { tam_substr(buf, 0, Len(buf) - 1) : buf \in Buffers }

\* the bytes of a tam_str and of a C string
StrBytes(str) == SubSeq(str.data, 1, str.len)
CStrBytes(buf) == SubSeq(buf, 1, CHOOSE n \in 0..(Len(buf) - 1) :
                                    /\ buf[n + 1] = NUL
                                    /\ \A j \in 1..n : buf[j] # NUL)

\* the caller's string is one a constructor returned
Constructed == s_op \in {"substr", "new", "dup"}

\* str = tam_substr(lit, lit + n) for a char array lit of n bytes
StrLiteral(buf) ==
    /\ s_buf' = buf
    /\ s_str' = tam_substr(buf, 0, Len(buf) - 1)
    /\ s_src' = SubSeq(buf, 1, Len(buf) - 1)
    /\ s_op' = "substr"
    /\ s_args' = <<>>
    /\ UNCHANGED s_ret
    /\ UNCHANGED notstr

\* str = tam_strcat(str, right)
StrCat(right) ==
    /\ Constructed
    /\ s_str' = tam_strcat(s_str, right)
    /\ s_args' = <<StrBytes(s_str), CStrBytes(right)>>
    /\ s_src' = StrBytes(s_str) \o CStrBytes(right)
    /\ s_op' = "cat"
    /\ UNCHANGED <<s_buf, s_ret>>
    /\ UNCHANGED notstr

\* str = tam_strcatstr(str, right)
StrCatstr(right) ==
    /\ Constructed
    /\ s_str' = tam_strcatstr(s_str, right)
    /\ s_args' = <<StrBytes(s_str), StrBytes(right)>>
    /\ s_src' = StrBytes(s_str) \o StrBytes(right)
    /\ s_op' = "catstr"
    /\ UNCHANGED <<s_buf, s_ret>>
    /\ UNCHANGED notstr

\* the values tam_strcmp(left, right) may return. With different lengths it
\* returns 0. With equal lengths control reaches the closing brace without a
\* return statement, and the caller reads whatever the return register
\* holds: zero or not, whatever result was computed
tam_strcmp(left, right) ==
    IF tam_strlen(left) # tam_strlen(right) THEN {0} ELSE {0, 1}

\* r = tam_strcmp(str, right)
StrCmp(right) ==
    /\ Constructed
    /\ s_ret' \in tam_strcmp(s_str, right)
    /\ s_args' = <<StrBytes(s_str), StrBytes(right)>>
    /\ s_op' = "cmp"
    /\ UNCHANGED <<s_buf, s_str, s_src>>
    /\ UNCHANGED notstr

StrFill == \E buf \in Buffers : StrInput(buf)
StrLit == \E buf \in Buffers : StrLiteral(buf)
StrRenew == Constructed /\ StrNew
StrCatC == \E right \in Buffers : StrCat(right)
StrCatS == \E right \in Strings : StrCatstr(right)
StrCompare == \E right \in Strings : StrCmp(right)
StrRange == \E start \in 0..Len(s_buf), end \in 0..Len(s_buf) :
                start <= end /\ StrSubstr(start, end)

(***************************************************************************)
(* The slice of slices.h (and its copy in strings.h)                       *)
(***************************************************************************)
\* the bytes of the char arrays viewed: NUL, ' ', 'a'
SlBytes == {NUL, 32, 97}

\* the char arrays viewed: up to MaxStrLen bytes and a terminator
SlBuffers == { Append(q, NUL) : q \in SeqsOf(SlBytes, MaxStrLen) }

\* tam_slice_n(buf + off, len) for the char array with the number id
tam_slice_n(id, off, len) == [id |-> id, off |-> off, len |-> len]

\* assert(...) failed: the process is aborted and nothing is returned
Abort == -1
AbortSlice == tam_slice_n(0, 0, Abort)

\* an assertion that checks the lower end only
tam_get_slice_index_NoUpper(i, len) ==
    LET j == IF i >= 0 THEN i ELSE len + i
    IN  IF 0 <= j THEN j ELSE Abort

\* tam_get_slice_index(i, len)
tam_get_slice_index(i, len) ==
    LET j == IF i >= 0 THEN i ELSE len + i
    IN  IF 0 <= j /\ j <= len THEN j ELSE Abort

\* a reslice whose length is the end index
tam_reslice_LenJ(sl, i, j) ==
    LET i1 == tam_get_slice_index(i, sl.len)
        j1 == tam_get_slice_index(j, sl.len)
    IN  IF i1 = Abort \/ j1 = Abort \/ ~(i1 <= j1) THEN AbortSlice
        ELSE tam_slice_n(sl.id, sl.off + i1, j1)

\* tam_reslice(s, i, j)
tam_reslice(sl, i, j) ==
    LET i1 == tam_get_slice_index(i, sl.len)
        j1 == tam_get_slice_index(j, sl.len)
    IN  IF i1 = Abort \/ j1 = Abort \/ ~(i1 <= j1) THEN AbortSlice
        ELSE tam_slice_n(sl.id, sl.off + i1, j1 - i1)

\* tam_slice_prefix(s, i)
tam_slice_prefix(sl, i) ==
    LET j == tam_get_slice_index(i, sl.len)
    IN  IF j = Abort THEN AbortSlice ELSE tam_slice_n(sl.id, sl.off, j)

\* tam_slice_suffix(s, i)
tam_slice_suffix(sl, i) ==
    LET j == tam_get_slice_index(i, sl.len)
    IN  IF j = Abort THEN AbortSlice ELSE tam_slice_n(sl.id, sl.off + j, sl.len - j)

\* tam_sl_eqv(s1, s2): the same pointer and the same length
tam_sl_eqv(s1, s2) == s1.id = s2.id /\ s1.off = s2.off /\ s1.len = s2.len

\* strncmp(a, b, n) == 0 for the bytes seen through two pointers: the
\* comparison ends at the first difference, after a NUL, or after n bytes
RECURSIVE StrncmpEq(_, _, _)
StrncmpEq(a, b, n) ==
    IF n = 0 THEN TRUE
    ELSE IF a[1] # b[1] THEN FALSE
    ELSE IF a[1] = NUL THEN TRUE
    ELSE StrncmpEq(Tail(a), Tail(b), n - 1)

\* tam_sl_eq(s1, s2) with the char arrays mem[1], mem[2]
tam_sl_eq(mem, s1, s2) ==
    IF s1.len # s2.len THEN FALSE
    ELSE IF s1.id = s2.id /\ s1.off = s2.off THEN TRUE
    ELSE StrncmpEq(PtrAt(mem[s1.id], s1.off), PtrAt(mem[s2.id], s2.off), s1.len)

SliceInit ==
    /\ l_buf = <<NUL>>
    /\ l_other = <<NUL>>
    /\ l_s = tam_slice_n(1, 0, 0)
    /\ l_ret = 0
    /\ l_args = <<>>
    /\ l_before = tam_slice_n(1, 0, 0)
    /\ l_op = "none"
    /\ l_hist = <<>>
    /\ l_orig = tam_slice_n(1, 0, 0)

\* the slices of a char array: any offset and any length before the
\* terminator of the array
SlicesOf(id, buf) ==
    { sl \in [id : {id}, off : 0..(Len(buf) - 1), len : 0..(Len(buf) - 1)] :
         sl.off + sl.len <= Len(buf) - 1 }

\* s = tam_slice_n(buf + off, len) on a char array of the caller
SlOpen(buf, sl) ==
    /\ l_op = "none"
    /\ l_buf' = buf
    /\ l_s' = sl
    /\ l_before' = sl
    /\ l_orig' = sl
    /\ l_op' = "open"
    /\ UNCHANGED <<l_other, l_ret, l_args, l_hist>>
    /\ UNCHANGED notslice

\* j = tam_get_slice_index(i, s.len)
SlIndex(i) ==
    /\ l_op = "open"
    /\ l_ret' = tam_get_slice_index(i, l_s.len)
    /\ l_args' = <<i>>
    /\ l_op' = "index"
    /\ UNCHANGED <<l_buf, l_other, l_s, l_before, l_hist, l_orig>>
    /\ UNCHANGED notslice

\* r = tam_reslice(s, i, j)
SlReslice(i, j) ==
    /\ l_op = "open"
    /\ l_ret' = tam_reslice(l_s, i, j)
    /\ l_args' = <<i, j>>
    /\ l_op' = "reslice"
    /\ UNCHANGED <<l_buf, l_other, l_s, l_before, l_hist, l_orig>>
    /\ UNCHANGED notslice

\* r = tam_sl_eq(s, s2) for a slice s2 of the same char array, or of the
\* char array other
SlEq(other, s2) ==
    /\ l_op = "open"
    /\ l_other' = other
    /\ l_ret' = tam_sl_eq(<<l_buf, other>>, l_s, s2)
    /\ l_args' = <<s2>>
    /\ l_op' = "eq"
    /\ UNCHANGED <<l_buf, l_s, l_before, l_hist, l_orig>>
    /\ UNCHANGED notslice

\* tam_sl_idx(s, i) for an index in range: the byte s.buf[j]
tam_sl_idx(mem, sl, i) == mem[sl.id][sl.off + tam_get_slice_index(i, sl.len) + 1]

\* isspace(c) in the C locale
isspace(c) == c \in {9, 10, 11, 12, 13, 32}

\* a loop that stops after the first byte
LstripLoop_One(mem, sl) ==
    IF 0 < sl.len /\ isspace(tam_sl_idx(mem, sl, 0)) THEN 1 ELSE 0

\* for (i = 0; i < s->len && isspace(tam_sl_idx(*s, i)); i++): the i left
LstripLoop(mem, sl) ==
    CHOOSE i \in 0..sl.len :
        /\ \A k \in 0..(i - 1) : isspace(tam_sl_idx(mem, sl, k))
        /\ (i < sl.len => ~isspace(tam_sl_idx(mem, sl, i)))

\* for (i = s->len - 1; i >= 0 && isspace(tam_sl_idx(*s, i)); i--); i++
RstripLoop(mem, sl) ==
    CHOOSE i \in 0..sl.len :
        /\ \A k \in i..(sl.len - 1) : isspace(tam_sl_idx(mem, sl, k))
        /\ (i > 0 => ~isspace(tam_sl_idx(mem, sl, i - 1)))

\* tam_sl_lstrip(&s): the slice left in s and the int returned
tam_sl_lstrip(mem, sl) ==
    LET i == LstripLoop(mem, sl)
    IN  [s |-> tam_slice_suffix(sl, i), ret |-> i]

\* tam_sl_rstrip(&s)
tam_sl_rstrip(mem, sl) ==
    LET i == RstripLoop(mem, sl)
    IN  [s |-> tam_slice_prefix(sl, i), ret |-> i]

\* a strip that returns the length left
tam_sl_strip_RetLen(mem, sl) ==
    LET s1 == tam_sl_lstrip(mem, sl).s
        s2 == tam_sl_rstrip(mem, s1).s
    IN  [s |-> s2, ret |-> s2.len]

\* tam_sl_strip(&s)
tam_sl_strip(mem, sl) ==
    LET orig_len == sl.len
        s1 == tam_sl_lstrip(mem, sl).s
        s2 == tam_sl_rstrip(mem, s1).s
    IN  [s |-> s2, ret |-> orig_len - s2.len]

\* the variants that take the slice by value and return the stripped copy
tam_slice_lstrip(mem, sl) == tam_sl_lstrip(mem, sl).s
tam_slice_rstrip(mem, sl) == tam_sl_rstrip(mem, sl).s
tam_slice_strip(mem, sl) == tam_sl_strip(mem, sl).s

\* a call op(&s) that leaves r.s in the caller's slice and returns r.ret
SlMutate(op, r) ==
    /\ l_op # "none"
    /\ l_before' = l_s
    /\ l_s' = r.s
    /\ l_ret' = r.ret
    /\ l_op' = op
    /\ l_hist' = Append(l_hist, [op |-> op, ret |-> r.ret, s |-> r.s])
    /\ UNCHANGED <<l_buf, l_other, l_orig>>
    /\ UNCHANGED notslice

SlLstrip ==
    /\ Len(l_hist) < MaxStrips
    /\ l_args' = <<>>
    /\ SlMutate("lstrip", tam_sl_lstrip(<<l_buf, l_other>>, l_s))

SlRstrip ==
    /\ Len(l_hist) < MaxStrips
    /\ l_args' = <<>>
    /\ SlMutate("rstrip", tam_sl_rstrip(<<l_buf, l_other>>, l_s))

SlStrip ==
    /\ Len(l_hist) < MaxStrips
    /\ l_args' = <<>>
    /\ SlMutate("strip", tam_sl_strip(<<l_buf, l_other>>, l_s))

\* the bytes of a C string: those before its terminator
CharsOf(cstr) == { cstr[k] : k \in 1..strlen(cstr) }

\* strcspn(p, reject): the bytes at the start of the C string at p that are
\* not in reject
strcspn(p, reject) ==
    CHOOSE n \in 0..(Len(p) - 1) :
        /\ \A k \in 1..n : p[k] # NUL /\ p[k] \notin CharsOf(reject)
        /\ (p[n + 1] = NUL \/ p[n + 1] \in CharsOf(reject))

\* strspn(p, accept): the bytes at the start of the C string at p that are
\* in accept
strspn(p, accept) ==
    CHOOSE n \in 0..(Len(p) - 1) :
        /\ \A k \in 1..n : p[k] \in CharsOf(accept)
        /\ p[n + 1] \notin CharsOf(accept)

\* tam_sl_cspan(s, reject)
tam_sl_cspan(mem, sl, reject) ==
    LET idx == strcspn(PtrAt(mem[sl.id], sl.off), reject)
    IN  IF idx > sl.len THEN sl.len ELSE idx

\* tam_sl_span(s, accept)
tam_sl_span(mem, sl, accept) ==
    LET idx == strspn(PtrAt(mem[sl.id], sl.off), accept)
    IN  IF idx > sl.len THEN sl.len ELSE idx

\* a tokenizer that steps over one delimiter byte only
tam_slice_tok_OneDelim(mem, sl, delimiters) ==
    LET prefix_size == tam_sl_cspan(mem, sl, delimiters)
        token       == tam_slice_prefix(sl, prefix_size)
        suffix      == tam_slice_suffix(sl, prefix_size)
        dlm_size    == IF tam_sl_span(mem, suffix, delimiters) > 0 THEN 1 ELSE 0
    IN  IF token.len + suffix.len # sl.len
        THEN [s |-> AbortSlice, ret |-> AbortSlice]
        ELSE [s |-> tam_slice_suffix(suffix, dlm_size), ret |-> token]

\* tam_slice_tok(&s, delimiters): the slice left in s and the token returned
tam_slice_tok(mem, sl, delimiters) ==
    LET prefix_size == tam_sl_cspan(mem, sl, delimiters)
        token       == tam_slice_prefix(sl, prefix_size)
        suffix      == tam_slice_suffix(sl, prefix_size)
        dlm_size    == tam_sl_span(mem, suffix, delimiters)
    IN  IF token.len + suffix.len # sl.len
        THEN [s |-> AbortSlice, ret |-> AbortSlice]
        ELSE [s |-> tam_slice_suffix(suffix, dlm_size), ret |-> token]

\* the delimiter strings handed in: "", " ", "a", " a"
Delimiters == { Append(q, NUL) : q \in {<<>>, <<32>>, <<97>>, <<32, 97>>} }

\* token = tam_slice_tok(&s, delimiters), in a loop that hands in the same
\* delimiters at every call
SlTok(delimiters) ==
    /\ Len(l_hist) < MaxToks
    /\ (l_op = "tok" => l_args = <<delimiters>>)
    /\ l_args' = <<delimiters>>
    /\ SlMutate("tok", tam_slice_tok(<<l_buf, l_other>>, l_s, delimiters))

SliceTok == \E delimiters \in Delimiters : SlTok(delimiters)

\* the inner loop of tam_sl_find at pos, entered with i: the i it leaves, or
\* Abort when tam_sl_idx refuses an index
RECURSIVE FindInner(_, _, _, _, _)
FindInner(mem, haystack, needle, pos, i) ==
    IF ~(i < needle.len) THEN i
    ELSE IF tam_get_slice_index(i, needle.len) = Abort
            \/ tam_get_slice_index(pos + i, haystack.len) = Abort THEN Abort
    ELSE IF tam_sl_idx(mem, needle, i) # tam_sl_idx(mem, haystack, pos + i) THEN i
    ELSE FindInner(mem, haystack, needle, pos, i + 1)

\* the indices tam_sl_idx was handed in an inner loop that left i
InnerReads(needle, i) == 0..(IF i < needle.len THEN i ELSE needle.len - 1)

\* a last position that is one too small
FindLast_Early(haystack, needle) == haystack.len - needle.len - 1

\* the last position the outer loop of tam_sl_find tries
FindLast(haystack, needle) == haystack.len - needle.len

\* the outer loop of tam_sl_find entered with pos: the int returned, and the
\* indices of haystack and of needle that tam_sl_idx was handed
RECURSIVE FindOuter(_, _, _, _, _)
FindOuter(mem, haystack, needle, pos, reads) ==
    IF ~(pos <= FindLast(haystack, needle))
    THEN [ret |-> haystack.len, hay |-> reads.hay, ndl |-> reads.ndl]
    ELSE LET i  == FindInner(mem, haystack, needle, pos, 0)
             rd == [hay |-> reads.hay \cup { pos + k : k \in InnerReads(needle, i) },
                    ndl |-> reads.ndl \cup InnerReads(needle, i)]
         IN  IF i = Abort THEN [ret |-> Abort, hay |-> reads.hay, ndl |-> reads.ndl]
             ELSE IF i = needle.len THEN [ret |-> pos, hay |-> rd.hay, ndl |-> rd.ndl]
             ELSE FindOuter(mem, haystack, needle, pos + 1, rd)

\* tam_sl_find(haystack, needle)
tam_sl_find(mem, haystack, needle) ==
    FindOuter(mem, haystack, needle, 0, [hay |-> {}, ndl |-> {}])

\* tam_sl_startswith(s, x)
tam_sl_startswith(mem, sl, x) ==
    StrncmpEq(PtrAt(mem[x.id], x.off), PtrAt(mem[sl.id], sl.off), x.len)

\* tam_sl_startswithstr(s, str)
tam_sl_startswithstr(mem, sl, str) ==
    StrncmpEq(str, PtrAt(mem[sl.id], sl.off), strlen(str))

\* tam_slice(buf) for the char array with the number id
tam_slice(id, buf) == tam_slice_n(id, 0, strlen(buf))

\* a call that leaves the caller's slice alone and returns r, on the
\* arguments args and with other as the second char array
SlPure(op, other, args, r) ==
    /\ l_op = "open"
    /\ l_other' = other
    /\ l_ret' = r
    /\ l_args' = args
    /\ l_op' = op
    /\ UNCHANGED <<l_buf, l_s, l_before, l_hist, l_orig>>
    /\ UNCHANGED notslice

\* pos = tam_sl_find(s, needle)
SlFind(other, needle) ==
    SlPure("find", other, <<needle>>, tam_sl_find(<<l_buf, other>>, l_s, needle))

\* r = tam_sl_startswith(s, x)
SlStartswith(other, x) ==
    SlPure("startswith", other, <<x>>, tam_sl_startswith(<<l_buf, other>>, l_s, x))

\* r = tam_sl_startswithstr(s, str)
SlStartswithstr(str) ==
    SlPure("startswithstr", str, <<tam_slice(2, str)>>,
           tam_sl_startswithstr(<<l_buf, str>>, l_s, str))

\* c = tam_sl_idx(s, i): the offset from s.buf of the byte read, and the byte
SlIdx(i) ==
    LET j == tam_get_slice_index(i, l_s.len)
    IN  SlPure("idx", l_other, <<i>>,
               IF j = Abort THEN [at |-> Abort, c |-> Abort]
               ELSE [at |-> j, c |-> tam_sl_idx(<<l_buf, l_other>>, l_s, i)])

SliceFindSame == \E needle \in SlicesOf(1, l_buf) : SlFind(l_other, needle)
SliceFindOther ==
    \E other \in SlBuffers : SlFind(other, tam_slice_n(2, 0, Len(other) - 1))
SliceStartsSame == \E x \in SlicesOf(1, l_buf) : SlStartswith(l_other, x)
SliceStartsStr == \E str \in SlBuffers : SlStartswithstr(str)
\* the indices handed in: in range, and one position or more out of range
SlIndices == (0 - (MaxStrLen + 1))..(MaxStrLen + 1)

SliceOpen == \E buf \in SlBuffers : \E sl \in SlicesOf(1, buf) : SlOpen(buf, sl)
SliceIdx == \E i \in SlIndices : SlIdx(i)
SliceIndex == \E i \in SlIndices : SlIndex(i)
SliceReslice == \E i \in SlIndices, j \in SlIndices : SlReslice(i, j)
SliceEqSame == \E s2 \in SlicesOf(1, l_buf) : SlEq(l_other, s2)
SliceEqOther ==
    \E other \in SlBuffers : SlEq(other, tam_slice_n(2, 0, Len(other) - 1))

(***************************************************************************)
(* The string builder of stringbuilder.h                                   *)
(***************************************************************************)
TAM_SB_INITIAL_CAPACITY == 16

\* a byte of a block that realloc added and nothing wrote yet
Junk == -1

\* a new capacity that is not compared with the length asked for
SbNewCap_NoFit(buf, cap, newlen) ==
    IF buf = "null" THEN TAM_SB_INITIAL_CAPACITY ELSE 2 * cap

\* newcap of tam_sb_grow
SbNewCap(buf, cap, newlen) ==
    LET newcap == IF buf = "null" THEN TAM_SB_INITIAL_CAPACITY ELSE 2 * cap
    IN  IF newcap < newlen THEN newlen + 1 ELSE newcap

\* the block realloc(ptr, n) returns: the old bytes, then bytes not written
Realloc(data, n) == [i \in 1..n |-> IF i <= Len(data) THEN data[i] ELSE Junk]

\* tam_sb_grow(sb, newlen) calls realloc
SbReallocs(sb, newlen) == ~(newlen <= sb.cap)

\* the builder tam_sb_grow(sb, newlen) leaves when realloc returns a block
tam_sb_grow(sb, newlen) ==
    IF ~SbReallocs(sb, newlen) THEN sb
    ELSE LET newcap == SbNewCap(sb.buf, sb.cap, newlen)
         IN  [buf  |-> "live",
              data |-> Realloc(IF sb.buf = "live" THEN sb.data ELSE <<>>, newcap),
              len  |-> sb.len,
              cap  |-> newcap]

\* memcpy(block + off, bytes, Len(bytes)); a copy of no bytes touches nothing
WriteAt(data, off, bytes) ==
    [i \in 1..Len(data) |->
        IF off < i /\ i <= off + Len(bytes) THEN bytes[i - off] ELSE data[i]]

\* tam_sb_appendcharsn(sb, s, n)
tam_sb_appendcharsn(sb, src, n) ==
    LET newlen == sb.len + n
        g      == tam_sb_grow(sb, newlen)
    IN  [g EXCEPT !.data = WriteAt(g.data, sb.len, SubSeq(src, 1, n)),
                  !.len = newlen]

\* tam_sb_appendslice(sb, sl) for a slice of the char array src
tam_sb_appendslice(sb, src, sl) == tam_sb_appendcharsn(sb, PtrAt(src, sl.off), sl.len)

\* tam_sb_appendchars(sb, s)
tam_sb_appendchars(sb, src) == tam_sb_appendcharsn(sb, src, strlen(src))

\* tam_sb_appendf(sb, fmt, ...) where the format produces the bytes text:
\* vsnprintf returns their number, vsprintf writes them and a terminator
tam_sb_appendf(sb, text) ==
    LET size == Len(text)
        g    == tam_sb_grow(sb, sb.len + size + 1)
    IN  [g EXCEPT !.data = WriteAt(g.data, sb.len, Append(text, NUL)),
                  !.len = sb.len + size]

\* tam_sb_tochars(sb): a zeroed block of sb.len + 1 bytes with the first
\* sb.len bytes of sb.buf copied in
tam_sb_tochars(sb) ==
    WriteAt([i \in 1..(sb.len + 1) |-> 0], 0, SubSeq(sb.data, 1, sb.len))

\* tam_sb_new()
SbInit ==
    /\ b_buf = "null"
    /\ b_data = <<>>
    /\ b_len = 0
    /\ b_cap = 0
    /\ b_ret = <<>>
    /\ b_op = "new"
    /\ b_app = <<>>
    /\ b_stale = FALSE
    /\ b_calls = 0

\* the caller's builder
SbNow == [buf |-> b_buf, data |-> b_data, len |-> b_len, cap |-> b_cap]

\* the process is still running and may call the builder again
SbRunning == b_op \notin {"fatal", "crash"} /\ b_calls < MaxSbCalls

\* what the allocator may do with realloc(ptr, n): return a block, return
\* NULL (TAM_reallocate reports the fatal error), and for a ptr that was
\* freed before, whatever the corrupted heap gives: a block or a crash
ReallocResults(buf) ==
    IF buf = "freed" THEN {"block", "null", "crash"} ELSE {"block", "null"}

\* an appending call that asks for newlen bytes of capacity, appends piece
\* and leaves the builder sb when realloc returns a block
SbAppend(op, newlen, piece, sb) ==
    /\ SbRunning
    /\ b_calls' = b_calls + 1
    /\ \E res \in (IF SbReallocs(SbNow, newlen) THEN ReallocResults(b_buf) ELSE {"block"}) :
          IF res = "block"
          THEN /\ b_buf' = sb.buf
               /\ b_data' = sb.data
               /\ b_len' = sb.len
               /\ b_cap' = sb.cap
               /\ b_app' = b_app \o piece
               /\ b_op' = op
               /\ b_stale' = (b_stale \/ (SbReallocs(SbNow, newlen) /\ b_buf = "freed"))
               /\ UNCHANGED b_ret
          ELSE /\ b_op' = (IF res = "null" THEN "fatal" ELSE "crash")
               /\ b_stale' = (b_stale \/ b_buf = "freed")
               /\ UNCHANGED <<b_buf, b_data, b_len, b_cap, b_app, b_ret>>
    /\ UNCHANGED notsb

\* tam_sb_appendcharsn(&sb, s, n) with the first n bytes of the char array
SbAppendcharsn(src, n) ==
    SbAppend("appendcharsn", b_len + n, SubSeq(src, 1, n),
             tam_sb_appendcharsn(SbNow, src, n))

\* tam_sb_appendchars(&sb, s)
SbAppendchars(src) ==
    SbAppend("appendchars", b_len + strlen(src), SubSeq(src, 1, strlen(src)),
             tam_sb_appendchars(SbNow, src))

\* tam_sb_appendslice(&sb, sl)
SbAppendslice(src, sl) ==
    SbAppend("appendslice", b_len + sl.len, SubSeq(src, sl.off + 1, sl.off + sl.len),
             tam_sb_appendslice(SbNow, src, sl))

\* tam_sb_appendf(&sb, "%s", s): the format produces the bytes of s
SbAppendf(src) ==
    SbAppend("appendf", b_len + strlen(src) + 1, SubSeq(src, 1, strlen(src)),
             tam_sb_appendf(SbNow, SubSeq(src, 1, strlen(src))))

\* str = tam_sb_tochars(sb): the builder is handed over by value; calloc
\* returns a block, or NULL and TAM_allocate reports the fatal error
SbTochars ==
    /\ SbRunning
    /\ b_calls' = b_calls + 1
    /\ \E res \in {"block", "null"} :
          IF res = "block"
          THEN b_ret' = tam_sb_tochars(SbNow) /\ b_op' = "tochars"
          ELSE b_ret' = b_ret /\ b_op' = "fatal"
    /\ UNCHANGED <<b_buf, b_data, b_len, b_cap, b_app, b_stale>>
    /\ UNCHANGED notsb

\* tam_sb_deallocate(&sb): free(sb->buf), then cap and len are set to 0 and
\* buf is left as it is; free of a block freed before may crash
SbDeallocate ==
    /\ SbRunning
    /\ b_calls' = b_calls + 1
    /\ \E res \in (IF b_buf = "freed" THEN {"done", "crash"} ELSE {"done"}) :
          IF res = "done"
          THEN /\ b_buf' = (IF b_buf = "null" THEN "null" ELSE "freed")
               /\ b_data' = <<>>
               /\ b_len' = 0
               /\ b_cap' = 0
               /\ b_app' = <<>>
               /\ b_op' = "deallocate"
          ELSE /\ b_op' = "crash"
               /\ UNCHANGED <<b_buf, b_data, b_len, b_cap, b_app>>
    /\ b_stale' = (b_stale \/ b_buf = "freed")
    /\ UNCHANGED b_ret
    /\ UNCHANGED notsb

\* n copies of the byte c, and a terminator
Rep(c, n) == [i \in 1..(n + 1) |-> IF i <= n THEN c ELSE NUL]

\* the char arrays appended: "", "a", nine 'b', seventeen 'c'
Pieces == {Rep(97, 0), Rep(97, 1), Rep(98, 9), Rep(99, 17)}

SbCharsn == \E src \in Pieces : \E n \in {0, strlen(src)} : SbAppendcharsn(src, n)
SbChars == \E src \in Pieces : SbAppendchars(src)
SbSlice ==
    \E src \in Pieces : \E off \in {0, 1} :
        /\ off <= strlen(src)
        /\ SbAppendslice(src, tam_slice_n(1, off, strlen(src) - off))
SbFormat == \E src \in Pieces : SbAppendf(src)

(***************************************************************************)
(* Operations of the hash map                                              *)
(***************************************************************************)
Init ==
    /\ count = 0
    /\ capacity = 0
    /\ entries = <<>>
    /\ ret = FALSE
    /\ out = Unwritten
    /\ opk = "init"
    /\ lastSet = [b \in KeyBytes |-> NULL]
    /\ ngrow = 0
    /\ fresh = TRUE
    /\ ArenaInit
    /\ VecInit
    /\ StrInit
    /\ SliceInit
    /\ BlockInit
    /\ SbInit

\* the table tam_map_set probes: grown first when the load factor asks for it
TableForSet(ents, cnt, cap) ==
    IF MustGrow(cnt, cap)
    THEN adjust_capacity(ents, cnt, GROW_CAPACITY(cap))
    ELSE ents

CapacityForSet(cnt, cap) ==
    IF MustGrow(cnt, cap) THEN GROW_CAPACITY(cap) ELSE cap

tam_map_set(key, val) ==
    LET grows  == MustGrow(count, capacity)
        ents1  == TableForSet(entries, count, capacity)
        cap1   == CapacityForSet(count, capacity)
        index  == find_entry(ents1, cap1, key)
        is_new == ents1[index + 1].key = NullKey
    IN  /\ grows => ngrow < MaxGrowths
        /\ index # Hang
        /\ count' = IF is_new THEN count + 1 ELSE count
        /\ capacity' = cap1
        /\ entries' = [ents1 EXCEPT ![index + 1] = [key |-> key, value |-> val]]
        /\ ret' = is_new
        /\ opk' = "set"
        /\ lastSet' = [lastSet EXCEPT ![key.s] = val]
        /\ ngrow' = IF grows THEN ngrow + 1 ELSE ngrow
        /\ fresh' = (fresh /\ lastSet[key.s] = NULL)
        /\ out' = Unwritten
        /\ UNCHANGED notmap

tam_map_get(key) ==
    /\ opk' = "get"
    /\ UNCHANGED <<count, capacity, entries, lastSet, ngrow, fresh>>
    /\ UNCHANGED notmap
    /\ IF count = 0
       THEN ret' = FALSE /\ out' = Unwritten
       ELSE LET index == find_entry(entries, capacity, key)
            IN  /\ index # Hang
                /\ IF entries[index + 1].key = NullKey
                   THEN ret' = FALSE /\ out' = Unwritten
                   ELSE ret' = TRUE /\ out' = entries[index + 1].value

\* tam_free_map: releases the table and runs tam_init_map again
tam_free_map ==
    /\ opk # "init"
    /\ count' = 0
    /\ capacity' = 0
    /\ entries' = <<>>
    /\ opk' = "free"
    /\ lastSet' = [b \in KeyBytes |-> NULL]
    /\ ngrow' = 0
    /\ fresh' = TRUE
    /\ ret' = FALSE
    /\ out' = Unwritten
    /\ UNCHANGED notmap

MapSet == \E key \in Keys, val \in Values : tam_map_set(key, val)
MapGet == \E key \in Keys : tam_map_get(key)
MapFree == tam_free_map

Next == MapSet \/ MapGet \/ MapFree

Spec == Init /\ [][Next]_vars

\* the nine-insertions scenario: one payload, ten different key strings
NineSet == \E key \in NineKeys : tam_map_set(key, 1)
NineFree == tam_free_map

NextNine == NineSet \/ NineFree

SpecNine == Init /\ [][NextNine]_vars

\* the arena on its own
SpecArena == Init /\ [][NextArena]_vars

NextArenaMem == MemAlloc \/ MemStore \/ MemRealloc \/ MemGrow
SpecArenaMem == Init /\ [][NextArenaMem]_vars

NextVec == VecNew \/ VecNewlen \/ VecFill \/ VecPush
SpecVec == Init /\ [][NextVec]_vars

NextStr == StrFill \/ StrRange \/ StrNew \/ StrDup
SpecStr == Init /\ [][NextStr]_vars

NextSlice == SliceOpen \/ SliceIndex \/ SliceReslice \/ SliceEqSame \/ SliceEqOther
SpecSlice == Init /\ [][NextSlice]_vars

NextStrip == SliceOpen \/ SlLstrip \/ SlRstrip \/ SlStrip
SpecStrip == Init /\ [][NextStrip]_vars

NextTok == SliceOpen \/ SliceTok
SpecTok == Init /\ [][NextTok]_vars

NextFind ==
    SliceOpen \/ SliceFindSame \/ SliceFindOther \/ SliceStartsSame \/ SliceStartsStr \/ SliceIdx
SpecFind == Init /\ [][NextFind]_vars

NextBlock == BlockNew \/ BlockNewlen \/ BlockFill
SpecBlock == Init /\ [][NextBlock]_vars

NextSb == SbCharsn \/ SbChars \/ SbSlice \/ SbFormat \/ SbTochars \/ SbDeallocate
SpecSb == Init /\ [][NextSb]_vars

NextCat == StrLit \/ StrRenew \/ StrDup \/ StrCatC \/ StrCatS \/ StrCompare
SpecCat == Init /\ [][NextCat]_vars

(***************************************************************************)
(* Hash map properties                                                     *)
(***************************************************************************)
Occupied(ents) == { i \in 1..Len(ents) : ents[i].key # NullKey }

\* the (key, value) pairs stored in a table
Pairs(ents) == { ents[i] : i \in Occupied(ents) }

\* some slot of the current table holds a key with these bytes
Present(key) == \E i \in Occupied(entries) : entries[i].key.s = key.s

EverSet == { b \in KeyBytes : lastSet[b] # NULL }

\* C1: tam_map_get on a key that was set since tam_init_map returns true
\* and writes the value of the latest tam_map_set for that key.
C1_GetReturnsLatestSet ==
    [][\A key \in Keys :
          (opk' = "get" /\ lastSet[key.s] # NULL /\ tam_map_get(key))
              => (ret' = TRUE /\ out' = lastSet[key.s])]_vars

\* C2: whenever tam_map_set is about to grow a table, the table that
\* adjust_capacity builds stores exactly the (key, value) pairs of the old one.
C2_GrowthKeepsPairs ==
    (capacity > 0 /\ MustGrow(count, capacity))
        => Pairs(adjust_capacity(entries, count, GROW_CAPACITY(capacity)))
               = Pairs(entries)

\* C3: count <= capacity * 0.75 in every reachable state.
C3_LoadFactor == 4 * count <= 3 * capacity

\* a set that grew the table to 16 slots and then stored a seventh entry
C3_Witness == opk = "set" /\ capacity = 16 /\ count = 7 /\ ngrow = 2

\* C4: tam_map_set returns true exactly when no entry held the key's bytes;
\* count goes up by one when it returns true and stays when it returns false,
\* and in the false case the key's entry holds the new value.
C4_SetReturnsIsNew ==
    [][\A key \in Keys, val \in Values :
          (opk' = "set" /\ lastSet'[key.s] = val /\ tam_map_set(key, val))
              => /\ ret' = ~Present(key)
                 /\ count' = (IF ret' THEN count + 1 ELSE count)
                 /\ (~ret' => \E i \in Occupied(entries') :
                                  /\ entries'[i].key.s = key.s
                                  /\ entries'[i].value = val)]_vars

C6_MatchIsFullContent ==
    capacity > 0 =>
        \A key \in Keys :
            LET index == find_entry(entries, capacity, key)
            IN  (index # Hang /\ entries[index + 1].key # NullKey)
                    => entries[index + 1].key.s = key.s

\* C7: tam_map_get on a key never set returns false, leaves count, capacity
\* and the table alone and does not write the out-value.
C7_GetMissing ==
    [][\A key \in Keys :
          (opk' = "get" /\ lastSet[key.s] = NULL /\ tam_map_get(key))
              => /\ ret' = FALSE
                 /\ out' = Unwritten
                 /\ UNCHANGED <<count, capacity, entries>>]_vars

RECURSIVE IsPow2(_)
IsPow2(n) == n = 1 \/ (n > 1 /\ n % 2 = 0 /\ IsPow2(n \div 2))

\* C8: the capacity is 0 until the first tam_map_set and a power of two of
\* at least 8 from then on; the first growth makes it 8, every later one
\* doubles it, and only tam_free_map lowers it.
C8_CapacityShape ==
    /\ [](IF EverSet = {} THEN capacity = 0
                          ELSE capacity >= 8 /\ IsPow2(capacity))
    /\ [][((ngrow' = ngrow + 1) =>
               (capacity' = (IF capacity = 0 THEN 8 ELSE 2 * capacity)))
           /\ ((ngrow' = ngrow /\ opk' # "free") => (capacity' = capacity))
           /\ ((capacity' < capacity) => (opk' = "free"))]_vars

\* the table after its second growth
C8_Witness == opk = "set" /\ ngrow = 2 /\ capacity = 16

\* C9: nine tam_map_set calls with nine different key strings on a fresh
\* map end with capacity 16 and count 9, after the allocation of 8 slots
\* and one growth.
C9_NineInsertions ==
    (fresh /\ Cardinality(EverSet) = 9)
        => (capacity = 16 /\ count = 9 /\ ngrow = 2)

(***************************************************************************)
(* Arena properties                                                        *)
(***************************************************************************)
\* C10: the regions issued by the arena are pairwise disjoint byte ranges
\* and each lies inside [beg, beg + cap).
C10_RegionsDisjointInside ==
    \A i \in 1..Len(a_issued) :
        /\ a_beg <= a_issued[i].lo
        /\ a_issued[i].hi <= a_beg + a_cap
        /\ \A j \in 1..Len(a_issued) :
              i # j => \/ a_issued[i].hi <= a_issued[j].lo
                       \/ a_issued[j].hi <= a_issued[i].lo

\* two non-empty regions with alignment padding skipped between them, the
\* second one issued by a reallocation
C10_Witness ==
    /\ a_op \in {"realloc", "grow"}
    /\ Len(a_issued) >= 2
    /\ a_issued[1].lo < a_issued[1].hi
    /\ a_issued[2].lo < a_issued[2].hi
    /\ a_issued[1].hi < a_issued[2].lo

\* the cursor offset ptr - beg
Cursor == a_ptr - a_beg

\* the last region the arena issued
LastIssued == a_issued[Len(a_issued)]

\* the block and the cursor the next call works with: the arena's own, or
\* when it has no block yet the one calloc hands out in that call
CallBegs == IF a_beg = NullPtr THEN BaseAddrs ELSE {a_beg}
CallPtr(beg) == IF a_beg = NullPtr THEN beg ELSE a_ptr

\* the cursor a call that returned started from
PtrBefore == IF a_beg = NullPtr THEN a_beg' ELSE a_ptr

\* C11: in every state of an arena the cursor offset ptr - beg is between 0
\* and cap, and no allocate, reallocate or grow_arr call that returns
\* decreases it.
C11_CursorInRangeMonotone ==
    /\ [](0 <= Cursor /\ Cursor <= a_cap)
    /\ [][a_op' \in {"alloc", "realloc", "grow"} => Cursor' >= Cursor]_vars

\* calls that returned have moved the cursor to the very end of the block
C11_Witness ==
    /\ a_op \in {"alloc", "realloc", "grow"}
    /\ Len(a_issued) >= 2
    /\ a_cap > 0
    /\ Cursor = a_cap

\* C12: TAM_arena_allocate on an arena with a block succeeds exactly when the
\* padding plus count * size is at most the bytes between the cursor and the
\* end of the block, whatever the size of the product; a fatal call changes
\* neither the cursor nor the pointer last returned, and a call that returns
\* issued a region that fitted.
C12_FatalExactlyWhenTooLarge ==
    /\ [](\A beg \in CallBegs, size \in ElemSizes, align \in Aligns, cnt \in Counts :
            LET ptr       == CallPtr(beg)
                remaining == beg + a_cap - ptr
                padding   == CHOOSE d \in 0..(align - 1) : (ptr + d) % align = 0
                res       == ArenaAllocate(beg, ptr, a_cap, size, align, cnt)
            IN  res.ok <=> (padding + cnt * size <= remaining))
    /\ [][/\ (a_op' = "fatal" => UNCHANGED <<a_ptr, a_ret, a_issued>>)
          /\ (a_op' = "alloc" =>
                 /\ Len(a_issued') = Len(a_issued) + 1
                 /\ a_ret' = LastIssued'.lo
                 /\ LastIssued'.hi <= a_beg' + a_cap
                 /\ PtrBefore <= LastIssued'.lo)]_vars

\* a request that exactly fills what was left of the block has returned
C12_Witness ==
    /\ a_op = "alloc"
    /\ Len(a_issued) >= 1
    /\ LastIssued.cnt > 0
    /\ a_ret = LastIssued.lo
    /\ LastIssued.hi = a_beg + a_cap

\* C13: for a power-of-two align the pointer TAM_arena_allocate returns is a
\* multiple of align, the padding skipped before it is the smallest number of
\* bytes that achieves this, and the cursor advances by padding + count * size.
C13_AlignedMinimalPadding ==
    /\ [](\A beg \in CallBegs, size \in ElemSizes, align \in Aligns, cnt \in Counts :
            LET ptr == CallPtr(beg)
                res == ArenaAllocate(beg, ptr, a_cap, size, align, cnt)
            IN  res.ok =>
                  /\ res.p % align = 0
                  /\ res.p >= ptr
                  /\ res.p - ptr < align
                  /\ \A q \in ptr..(res.p - 1) : q % align # 0
                  /\ res.ptr - ptr = (res.p - ptr) + cnt * size)
    /\ [][a_op' = "alloc" =>
             /\ a_ret' = LastIssued'.lo
             /\ a_ptr' - PtrBefore =
                  (a_ret' - PtrBefore) + LastIssued'.cnt * LastIssued'.size]_vars

\* an allocation that skipped padding after the region issued before it
C13_Witness ==
    /\ a_op = "alloc"
    /\ Len(a_issued) >= 2
    /\ a_ret = LastIssued.lo
    /\ a_ret > a_issued[Len(a_issued) - 1].hi
    /\ LastIssued.cnt > 0

\* the bytes of the block, in the state mem, that the region r occupies
Contents(mem, beg, r) == [k \in 1..(r.hi - r.lo) |-> mem[r.lo - beg + k]]

\* the first n bytes of a sequence of bytes
Prefix(bytes, n) == [k \in 1..n |-> bytes[k]]

\* the byte ranges of two regions do not meet
Disjoint(r, q) == r.hi <= q.lo \/ q.hi <= r.lo

\* C14: TAM_arena_reallocate with new_count <= count returns the same
\* pointer and leaves beg, cursor and cap as they were; with new_count > count
\* it returns a newly issued region of new_count elements whose bytes are
\* disjoint from the old region's, whose first count elements are the old
\* region's contents, and the old region's bytes are as they were.
C14_ReallocateCopies ==
    [][\A arr \in Arrays, align \in ArrayAligns, new_count \in 0..(MaxCount + 1) :
         (a_op' = "realloc" /\ TAM_arena_reallocate(arr, align, new_count)) =>
            IF new_count <= arr.cnt
            THEN /\ a_ret' = arr.lo
                 /\ UNCHANGED <<a_beg, a_ptr, a_cap, a_mem>>
            ELSE /\ Len(a_issued') = Len(a_issued) + 1
                 /\ a_ret' = LastIssued'.lo
                 /\ a_ret' # NullPtr
                 /\ LastIssued' = Region(a_ret', arr.size, new_count)
                 /\ Disjoint(LastIssued', arr)
                 /\ (arr.cnt > 0 =>
                       /\ a_ret' # arr.lo
                       /\ Prefix(Contents(a_mem', a_beg', LastIssued'),
                                 arr.cnt * arr.size) = Contents(a_mem, a_beg, arr)
                       /\ Contents(a_mem', a_beg', arr) = Contents(a_mem, a_beg, arr))]_vars

\* a reallocation has copied the elements the caller stored in a region of
\* two-byte elements into a larger region
C14_Witness ==
    /\ a_op = "realloc"
    /\ Len(a_issued) >= 2
    /\ a_ret = LastIssued.lo
    /\ LastIssued.size = 2
    /\ \E i \in 1..(Len(a_issued) - 1) :
          /\ a_issued[i].cnt > 0
          /\ a_issued[i].cnt < LastIssued.cnt
          /\ a_issued[i].size = 2
          /\ \A j \in 0..(a_issued[i].hi - a_issued[i].lo - 1) :
                /\ a_mem[a_issued[i].lo - a_beg + j + 1] = ElemByte(i, j)
                /\ a_mem[LastIssued.lo - a_beg + j + 1] = ElemByte(i, j)

\* C15: TAM_arena_grow_arr reports new_count = 8 when the array pointer is
\* null or count is 0 and 2 * count otherwise, and the pointer it returns is
\* that of an arena region of new_count elements whose first count elements
\* are the old array's.
C15_GrowArrReturnsRegion ==
    [][\A arr \in GrowArrays, align \in ArrayAligns :
         (a_op' = "grow" /\ TAM_arena_grow_arr(arr, align)) =>
            /\ a_newcount' = (IF arr.lo = NullPtr \/ arr.cnt = 0 THEN 8 ELSE 2 * arr.cnt)
            /\ a_ret' # NullPtr
            /\ \E i \in 1..Len(a_issued') :
                  /\ a_issued'[i] = Region(a_ret', arr.size, a_newcount')
                  /\ (arr.lo # NullPtr =>
                        Prefix(Contents(a_mem', a_beg', a_issued'[i]),
                               arr.cnt * arr.size) = Contents(a_mem, a_beg, arr))]_vars

(***************************************************************************)
(* Vector properties                                                       *)
(***************************************************************************)
\* the backing store of the vector: the block realloc returned last
Store == IF v_live THEN [len |-> v_hdr.len, cap |-> v_hdr.cap, data |-> v_data]
         ELSE v_store

Max(a, b) == IF a >= b THEN a ELSE b

\* C16: after n pushes onto a vector from <name>_new, through the caller's
\* handle, the handle points into an allocated block, tam_vec_len on it is n
\* and element i read through it is the i-th element pushed.
C16_PushesReadableThroughHandle ==
    (v_src = "new" /\ v_op = "push") =>
        /\ v_live
        /\ v_hdr.len = Len(v_pushed)
        /\ \A i \in 1..Len(v_pushed) : i <= Len(v_data) /\ v_data[i] = v_pushed[i]

\* C17: for a vector from any constructor and after any pushes, the length
\* of the backing store is at most its capacity and every push wrote its
\* element at an index below the capacity of the backing store.
C17_LenWithinCapacity ==
    v_op \in {"new", "newlen", "fill", "push"} =>
        /\ Store.len <= Store.cap
        /\ (v_live => v_hdr.len <= v_hdr.cap)
        /\ (v_op = "push" => v_write.idx < v_write.cap)

\* C18: a push that finds length == capacity regrows the backing store to
\* max(8, floor(old_capacity * 1.618), length + 1) elements.
C18_GrowthFormula ==
    (v_op = "push" /\ v_grow # NoGrow) =>
        v_grow.new = Max(8, Max((v_grow.old * 1618) \div 1000, v_grow.len + 1))

\* C19 as stated: starting from an empty vector, the capacity after 9 pushes
\* is at least 9 and the 9th push takes the capacity from 8 to 16.
C19_CapacityEightToSixteen ==
    (v_src = "new" /\ v_op = "push" /\ Len(v_pushed) = 9) =>
        /\ Store.cap >= 9
        /\ v_grow.old = 8
        /\ v_grow.new = 16

\* C19 amended: starting from an empty vector, the backing store that the
\* 9th push leaves has a capacity of at least 9, and that push takes the
\* capacity from 8 to 12 = floor(8 * 1.618), no earlier push growing it.
C19_CapacityEightToTwelve ==
    (v_src = "new" /\ v_op = "push") =>
        /\ (Len(v_pushed) <= 8 => v_grow = NoGrow /\ Store.cap = 8)
        /\ (Len(v_pushed) = 9 =>
              /\ Store.cap >= 9
              /\ v_grow.old = 8
              /\ v_grow.new = 12
              /\ Store.cap = 12)

\* nine pushes onto an empty vector have returned
C19_Witness ==
    /\ v_src = "new"
    /\ v_op = "push"
    /\ Len(v_pushed) = 9
    /\ v_grow.old = 8
    /\ Store.cap = 12

(***************************************************************************)
(* String properties                                                       *)
(***************************************************************************)
\* C20: the string built by tam_substr from a byte range of length n, and
\* by tam_strnew and tam_strdup from a source of length n, has tam_strlen
\* n and its bytes 0..n-1 are the source's bytes in order.
C20_StringRoundTrip ==
    s_op \in {"substr", "new", "dup"} =>
        /\ tam_strlen(s_str) = Len(s_src)
        /\ Len(s_str.data) > Len(s_src)
        /\ \A i \in 1..Len(s_src) : s_str.data[i] = s_src[i]

\* a string of three bytes with a NUL among them has been built from the
\* caller's buffer and then duplicated
C20_Witness ==
    /\ s_op = "dup"
    /\ tam_strlen(s_str) = 3
    /\ Len(s_src) = 3
    /\ Len(s_buf) > 3
    /\ s_src = SubSeq(s_buf, 1, 3)
    /\ s_src[2] = NUL
    /\ s_src[1] # NUL
    /\ s_src[3] # s_src[1]

\* C21: every string returned by tam_strnew, tam_substr, tam_strdup,
\* tam_strcat and tam_strcatstr has len + 1 data bytes behind its header,
\* and the byte at index tam_strlen is NUL.
C21_Terminated ==
    s_op \in {"substr", "new", "dup", "cat", "catstr"} =>
        /\ Len(s_str.data) = tam_strlen(s_str) + 1
        /\ s_str.data[tam_strlen(s_str) + 1] = NUL

\* a concatenation of two non-empty strings has returned
C21_Witness ==
    /\ s_op = "catstr"
    /\ Len(s_args[1]) > 0
    /\ Len(s_args[2]) > 0
    /\ s_str.data[1] # NUL
    /\ s_str.data[2] = NUL

\* C22: tam_strcat and tam_strcatstr return a string whose length is
\* len(left) + len(right) and whose bytes are left's followed by right's,
\* the operands holding after the call the bytes they held before it.
C22_ConcatBytes ==
    s_op \in {"cat", "catstr"} =>
        /\ tam_strlen(s_str) = Len(s_args[1]) + Len(s_args[2])
        /\ Len(s_str.data) > tam_strlen(s_str)
        /\ \A i \in 1..Len(s_args[1]) : s_str.data[i] = s_args[1][i]
        /\ \A j \in 1..Len(s_args[2]) : s_str.data[Len(s_args[1]) + j] = s_args[2][j]
        /\ s_src = s_args[1] \o s_args[2]

\* a tam_str and a C string that differ in their first byte were
\* concatenated by tam_strcat
C22_Witness ==
    /\ s_op = "cat"
    /\ Len(s_args[1]) >= 2
    /\ Len(s_args[2]) >= 1
    /\ s_args[1][1] # s_args[2][1]
    /\ StrBytes(s_str) = s_args[1] \o s_args[2]

\* C23: tam_strcmp returns a non-zero value when the two strings have the
\* same length and the same bytes, and 0 in every other case.
C23_StrcmpEquality ==
    s_op = "cmp" => ((s_ret # 0) <=> (s_args[1] = s_args[2]))

(***************************************************************************)
(* Slice properties                                                        *)
(***************************************************************************)
\* the bytes a slice views, in the char arrays mem[1], mem[2]
SliceBytes(mem, sl) == [k \in 1..sl.len |-> mem[sl.id][sl.off + k]]

SliceMem == <<l_buf, l_other>>

\* C24: tam_get_slice_index(i, len) returns i for 0 <= i <= len and
\* len + i for -len <= i < 0, and is fatal for every other i.
C24_SliceIndex ==
    l_op = "index" =>
        LET i   == l_args[1]
            len == l_s.len
        IN  /\ ((0 <= i /\ i <= len) => l_ret = i)
            /\ ((0 - len <= i /\ i < 0) => l_ret = len + i)
            /\ ((i < 0 - len \/ i > len) => l_ret = Abort)

\* the index -1 selected the last byte of a slice of two bytes or more
C24_Witness ==
    /\ l_op = "index"
    /\ l_s.len >= 2
    /\ l_args[1] = 0 - 1
    /\ l_ret = l_s.len - 1

\* C25: for indices i, j that normalize to i1 <= j1 in [0, s.len],
\* tam_reslice(s, i, j) has length j1 - i1, its buf is s.buf + i1 and it
\* views bytes [i1, j1) of s; it is fatal when an index is out of range or
\* when i1 > j1.
C25_Reslice ==
    l_op = "reslice" =>
        LET i  == l_args[1]
            j  == l_args[2]
            i1 == IF i >= 0 THEN i ELSE l_s.len + i
            j1 == IF j >= 0 THEN j ELSE l_s.len + j
        IN  IF 0 <= i1 /\ i1 <= j1 /\ j1 <= l_s.len
            THEN /\ l_ret.len = j1 - i1
                 /\ l_ret.id = l_s.id
                 /\ l_ret.off = l_s.off + i1
                 /\ SliceBytes(SliceMem, l_ret) =
                        SubSeq(SliceBytes(SliceMem, l_s), i1 + 1, j1)
            ELSE l_ret = AbortSlice

\* a reslice with a negative end index that views the middle of a slice
C25_Witness ==
    /\ l_op = "reslice"
    /\ l_args[1] = 1
    /\ l_args[2] = 0 - 1
    /\ l_s.len = 3
    /\ l_ret.len = 1
    /\ l_ret.off = l_s.off + 1

\* C26: tam_sl_eq is reflexive and symmetric and returns true exactly when
\* the two slices have the same length and the same byte at every position;
\* tam_sl_eqv(s1, s2) implies tam_sl_eq(s1, s2).
C26_EqIsByteEquality ==
    /\ tam_sl_eq(SliceMem, l_s, l_s)
    /\ (l_op = "eq" =>
          /\ l_ret = (SliceBytes(SliceMem, l_s) = SliceBytes(SliceMem, l_args[1]))
          /\ l_ret = tam_sl_eq(SliceMem, l_args[1], l_s)
          /\ (tam_sl_eqv(l_s, l_args[1]) => l_ret))

\* the last call and the call before it were the same operation
SameTwice ==
    /\ Len(l_hist) >= 2
    /\ l_hist[Len(l_hist)].op = l_hist[Len(l_hist) - 1].op

\* C27: tam_slice_strip(tam_slice_strip(s)) is content-equal to
\* tam_slice_strip(s), likewise tam_slice_lstrip and tam_slice_rstrip, and a
\* second in-place strip removes nothing.
C27_StripIdempotent ==
    /\ LET t == tam_slice_strip(SliceMem, l_s)
       IN  SliceBytes(SliceMem, tam_slice_strip(SliceMem, t)) = SliceBytes(SliceMem, t)
    /\ LET t == tam_slice_lstrip(SliceMem, l_s)
       IN  SliceBytes(SliceMem, tam_slice_lstrip(SliceMem, t)) = SliceBytes(SliceMem, t)
    /\ LET t == tam_slice_rstrip(SliceMem, l_s)
       IN  SliceBytes(SliceMem, tam_slice_rstrip(SliceMem, t)) = SliceBytes(SliceMem, t)
    /\ (SameTwice => l_s = l_before)

\* a second tam_sl_strip after one that removed a byte on either side
C27_Witness ==
    /\ SameTwice
    /\ l_op = "strip"
    /\ l_hist[Len(l_hist) - 1].ret = 2
    /\ l_s.len = 1
    /\ l_s = l_before

\* the last call shortened the caller's slice in place
ShortenedInPlace ==
    /\ l_s.id = l_before.id
    /\ l_before.off <= l_s.off
    /\ l_s.off + l_s.len <= l_before.off + l_before.len

\* C28 as stated: tam_sl_lstrip, tam_sl_rstrip and tam_sl_strip shorten the
\* caller's slice in place and return the number of bytes removed.
C28_ReturnsBytesRemoved ==
    l_op \in {"lstrip", "rstrip", "strip"} =>
        /\ ShortenedInPlace
        /\ l_ret = l_before.len - l_s.len

\* C28 amended: the three shorten the caller's slice in place; tam_sl_lstrip
\* and tam_sl_strip return the number of bytes removed, tam_sl_rstrip returns
\* the length that is left (the index of the first trailing whitespace byte).
C28_RstripReturnsIndex ==
    /\ (l_op \in {"lstrip", "rstrip", "strip"} => ShortenedInPlace)
    /\ (l_op \in {"lstrip", "strip"} => l_ret = l_before.len - l_s.len)
    /\ (l_op = "lstrip" => l_ret = l_s.off - l_before.off)
    /\ (l_op = "rstrip" => l_ret = l_s.len /\ l_s.off = l_before.off)

\* tam_sl_rstrip removed one byte of three and returned 2
C28_Witness ==
    /\ l_op = "rstrip"
    /\ l_before.len = 3
    /\ l_s.len = 2
    /\ l_ret = 2

\* the maximal runs of bytes not in the set D, in order
RECURSIVE RunsFrom(_, _, _)
RunsFrom(bytes, D, run) ==
    IF bytes = <<>> THEN (IF run = <<>> THEN <<>> ELSE <<run>>)
    ELSE IF Head(bytes) \in D
         THEN (IF run = <<>> THEN <<>> ELSE <<run>>) \o RunsFrom(Tail(bytes), D, <<>>)
         ELSE RunsFrom(Tail(bytes), D, Append(run, Head(bytes)))

Runs(bytes, D) == RunsFrom(bytes, D, <<>>)

\* the bytes the slice viewed when it was made, and those of the delimiters
OrigBytes == SliceBytes(SliceMem, l_orig)
DelimSet == CharsOf(l_args[1])

\* the slice was made over a NUL-terminated string: no NUL byte inside
NulTerminatedInput == \A k \in 1..Len(OrigBytes) : OrigBytes[k] # NUL

\* the bytes of the tokens returned so far, oldest first
Tokens == [k \in 1..Len(l_hist) |-> SliceBytes(SliceMem, l_hist[k].ret)]

\* the length of the caller's slice after k calls
LenAfter(k) == IF k = 0 THEN l_orig.len ELSE l_hist[k].s.len

\* the slice is empty after some call so far; the number of calls made up
\* to the one that left it empty (none when it was made empty)
Exhausted == \E k \in 0..Len(l_hist) : LenAfter(k) = 0
CallsToEmpty == CHOOSE k \in 0..Len(l_hist) :
                   /\ LenAfter(k) = 0
                   /\ \A m \in 0..(k - 1) : LenAfter(m) # 0

NonEmpty(tok) == tok # <<>>

\* C29 as stated: for a NUL-terminated input, the tokens returned up to the
\* call that leaves the slice empty are exactly the maximal runs of
\* non-delimiter bytes of the input, in order, and every later call returns
\* an empty token.
C29_TokensAreRuns ==
    (l_op = "tok" /\ NulTerminatedInput /\ Exhausted) =>
        /\ SubSeq(Tokens, 1, CallsToEmpty) = Runs(OrigBytes, DelimSet)
        /\ \A k \in (CallsToEmpty + 1)..Len(l_hist) : Tokens[k] = <<>>

\* C29 amended: for a NUL-terminated input, the non-empty tokens returned up
\* to the call that leaves the slice empty are exactly the maximal runs of
\* non-delimiter bytes of the input, in order; the first of these calls
\* returns an empty token exactly when the input begins with a delimiter
\* byte and no other of them returns one; every later call returns an empty
\* token.
C29_NonEmptyTokensAreRuns ==
    (l_op = "tok" /\ NulTerminatedInput /\ Exhausted) =>
        /\ SelectSeq(SubSeq(Tokens, 1, CallsToEmpty), NonEmpty) = Runs(OrigBytes, DelimSet)
        /\ \A k \in 2..CallsToEmpty : Tokens[k] # <<>>
        /\ (CallsToEmpty >= 1 => (Tokens[1] = <<>>) = (OrigBytes[1] \in DelimSet))
        /\ \A k \in (CallsToEmpty + 1)..Len(l_hist) : Tokens[k] = <<>>

\* " aa" split at " ": an empty token, the token "aa", then empty tokens
C29_Witness ==
    /\ l_op = "tok"
    /\ Len(l_hist) = 4
    /\ OrigBytes = <<32, 97, 97>>
    /\ DelimSet = {32}
    /\ Tokens = <<<<>>, <<97, 97>>, <<>>, <<>>>>

\* C30: a call of tam_slice_tok on a slice of length > 0 strictly decreases
\* the slice's length; on a slice of length 0 it returns an empty token and
\* leaves pointer and length unchanged.
C30_TokDecreasesLength ==
    l_op = "tok" =>
        /\ (l_before.len > 0 => l_s.len < l_before.len)
        /\ (l_before.len = 0 => l_ret.len = 0 /\ l_s = l_before)

\* needle's bytes occur in haystack at index p
OccursAt(p) ==
    LET hay == SliceBytes(SliceMem, l_s)
        ndl == SliceBytes(SliceMem, l_args[1])
    IN  /\ 0 <= p /\ p <= Len(hay) - Len(ndl)
        /\ SubSeq(hay, p + 1, p + Len(ndl)) = ndl

\* C31: tam_sl_find(haystack, needle) returns the smallest index at which
\* needle's bytes occur in haystack, and haystack.len when there is no
\* occurrence; an empty needle is found at 0; no index outside the two
\* slices is read.
C31_FindFirstOccurrence ==
    l_op = "find" =>
        /\ IF \E p \in 0..l_s.len : OccursAt(p)
           THEN OccursAt(l_ret.ret) /\ \A p \in 0..(l_ret.ret - 1) : ~OccursAt(p)
           ELSE l_ret.ret = l_s.len
        /\ (l_args[1].len = 0 => l_ret.ret = 0)
        /\ (l_args[1].len > l_s.len => l_ret.ret = l_s.len)
        /\ l_ret.hay \subseteq 0..(l_s.len - 1)
        /\ l_ret.ndl \subseteq 0..(l_args[1].len - 1)

\* a needle of two bytes found at the last position of a haystack of three
\* after a partial match at an earlier position
C31_Witness ==
    /\ l_op = "find"
    /\ l_s.len = 3
    /\ l_args[1].len = 2
    /\ l_args[1].id = 2
    /\ l_ret.ret = 1
    /\ l_ret.hay = {0, 1, 2}
    /\ l_ret.ndl = {0, 1}

\* C32: tam_sl_startswith(s, x) returns true exactly when x.len <= s.len and
\* the first x.len bytes of s equal the bytes of x (the same for
\* tam_sl_startswithstr with a C string); bytes beyond s.len do not
\* influence the result.
C32_StartsWithPrefix ==
    l_op \in {"startswith", "startswithstr"} =>
        LET sb == SliceBytes(SliceMem, l_s)
            xb == SliceBytes(SliceMem, l_args[1])
        IN  l_ret = (Len(xb) <= Len(sb) /\ SubSeq(sb, 1, Len(xb)) = xb)

\* C37: every index tam_sl_idx accepts reads a byte at an offset in
\* [0, s.len) from s.buf.
C37_IdxInsideSlice ==
    (l_op = "idx" /\ l_ret.at # Abort) => (0 <= l_ret.at /\ l_ret.at < l_s.len)

(***************************************************************************)
(* Vector block properties                                                 *)
(***************************************************************************)
\* C38: the block tamint__vec_alloc requests is at least
\* sizeof(tamint__vec_header) + cap * elem_size bytes.
C38_BlockHoldsHeaderAndSlots ==
    k_block.op # "none" =>
        k_block.bytes >= HeaderBytes(k_block.sizet) + k_block.cap * k_block.size

(***************************************************************************)
(* Map properties: count and probing                                       *)
(***************************************************************************)
\* C35: map.count equals the number of slots of the entries table whose key
\* is non-null.
C35_CountIsOccupiedSlots == count = Cardinality(Occupied(entries))

\* a table has capacity > 0 and an empty slot, and the probe for key ends
ProbeEnds(ents, cap, key) ==
    /\ cap > 0
    /\ Occupied(ents) # 1..cap
    /\ find_entry(ents, cap, key) # Hang

\* every probe of the reinsertion loop of adjust_capacity ends: slots
\* i .. n-1 of the old table into the table new
RECURSIVE ReinsertEnds(_, _, _, _, _)
ReinsertEnds(old, new, cap, i, n) ==
    IF i >= n THEN TRUE
    ELSE IF old[i + 1].key = NullKey THEN ReinsertEnds(old, new, cap, i + 1, n)
    ELSE /\ ProbeEnds(new, cap, old[i + 1].key)
         /\ ReinsertEnds(old,
                         [new EXCEPT ![find_entry(new, cap, old[i + 1].key) + 1] = old[i + 1]],
                         cap, i + 1, n)

\* C36: every find_entry probe started by tam_map_set or tam_map_get on a
\* reachable map ends: the table probed has capacity > 0 and an empty slot,
\* so the probe reaches an empty or matching slot within capacity steps.
C36_ProbesEnd ==
    LET ents1 == TableForSet(entries, count, capacity)
        cap1  == CapacityForSet(count, capacity)
        grows == MustGrow(count, capacity)
    IN  /\ (count # 0 => \A key \in Keys \cup NineKeys : ProbeEnds(entries, capacity, key))
        /\ ((grows => ngrow < MaxGrowths) =>
              /\ (grows =>
                    ReinsertEnds(entries, [i \in 1..cap1 |-> EmptyPair], cap1, 0,
                                 ReinsertBound(count, Len(entries))))
              /\ \A key \in Keys \cup NineKeys : ProbeEnds(ents1, cap1, key))

\* a tam_map_set of a new key into the 16-slot table, where the probe for
\* some key goes past the slot of its hash
C36_Witness ==
    /\ opk = "set"
    /\ ret = TRUE
    /\ capacity = 16
    /\ count >= 8
    /\ \E key \in NineKeys :
          find_entry(entries, capacity, key) # HashMod(key, capacity)

(***************************************************************************)
(* String builder properties                                               *)
(***************************************************************************)
\* only appends and tam_sb_tochars were called since tam_sb_new
FromNew == b_buf # "freed" /\ ~b_stale /\ b_op \notin {"deallocate", "fatal", "crash"}

\* C33: after any sequence of appends on a builder from tam_sb_new, sb.len
\* is the sum of the appended lengths, sb.len <= sb.cap, and tam_sb_tochars
\* returns a NUL-terminated copy of the appended pieces in call order; the
\* builder is not changed by tam_sb_tochars.
C33_BuilderHoldsPieces ==
    /\ [](FromNew =>
            /\ b_len = Len(b_app)
            /\ b_len <= b_cap
            /\ Len(b_data) = b_cap
            /\ SubSeq(b_data, 1, b_len) = b_app
            /\ (b_op = "tochars" => b_ret = Append(b_app, NUL)))
    /\ [][b_op' = "tochars" => UNCHANGED <<b_buf, b_data, b_len, b_cap>>]_vars

\* tam_sb_tochars after appends that made the buffer grow twice
C33_Witness ==
    /\ b_op = "tochars"
    /\ FromNew
    /\ b_len = 19
    /\ b_cap = 32
    /\ b_ret = Append(b_app, NUL)

\* C34: after tam_sb_deallocate the builder is as tam_sb_new returns it
\* (buf == NULL, len == 0, cap == 0), and appending to it again never
\* touches the freed buffer.
C34_DeallocatedIsNew ==
    /\ (b_op = "deallocate" => b_buf = "null" /\ b_len = 0 /\ b_cap = 0)
    /\ ~b_stale

====
